---- MODULE Spec2Model ----
(***************************************************************************)
(* A model of the incremental indexer of deja (cc-dejavu): the JSONL log   *)
(* parser, the commands / indexed_files tables and sync(), together with   *)
(* the session log files the indexer reads.                                *)
(***************************************************************************)
EXTENDS Integers, Sequences, FiniteSets, TLC

(***************************************************************************)
(* Bounds of the model.                                                    *)
(***************************************************************************)
\* lines a session file may hold
MaxLines == 4
\* changes the environment makes to the file system in one run
MaxWrites == 2
\* lines of a text handed to parseJsonlContent on its own
MaxEntries == 4
\* lines of a text handed to parseJsonlContent after an earlier call
MaxLater == 2
\* how far around a bucket boundary the ages handed to the scorer go
MaxSkew == 1
\* the frequencies handed to the scorer go down to minus this
MaxBelow == 2
\* rows the commands table holds when it is queried
MaxRows == 3
\* the greatest limit handed to listCommands
MaxLimit == 2
MaxRelevance == 2

(***************************************************************************)
(* The names of the properties, columns and fields of the records below,   *)
(* each with the source type it comes from ("model": it has none).  Every  *)
(* record lists its fields in the order of this list.                      *)
(***************************************************************************)
FieldNames ==
  [type |-> "ToolUse", id |-> "ToolUse", name |-> "ToolUse",
   input |-> "ToolUse", tool_use_id |-> "ToolResult", command |-> "ToolUse",
   description |-> "ToolUse", content |-> "ToolResult", kind |-> "model",
   isNull |-> "model", entry |-> "model", bytes |-> "model",
   toolUse |-> "model", cwd |-> "MessageEntry", stdout |-> "MessageEntry",
   stderr |-> "MessageEntry", is_error |-> "ToolResult",
   timestamp |-> "MessageEntry", toolUseResult |-> "MessageEntry",
   session_id |-> "ParsedCommand", threw |-> "model", commands |-> "model",
   pending |-> "model", rows |-> "model", last_byte_offset |-> "IndexedFile",
   last_modified |-> "IndexedFile", count |-> "model", startLine |-> "model",
   project |-> "model", stem |-> "model", ext |-> "model", size |-> "Stats",
   mtimeMs |-> "Stats", lines |-> "model", path |-> "model", op |-> "model",
   force |-> "model", again |-> "model", filesScanned |-> "SyncResult",
   newCommands |-> "SyncResult", errors |-> "SyncResult", idx |-> "model",
   result |-> "model", fn |-> "model", args |-> "model", value |-> "model",
   left |-> "model", found |-> "model", ms |-> "model",
   frequency |-> "CommandWithFrecency", frecency_score |-> "CommandWithFrecency",
   regex |-> "SearchOptions", limit |-> "SearchOptions", sort |-> "SearchOptions"]

(***************************************************************************)
(* JavaScript values.                                                      *)
(***************************************************************************)
\* a property that is absent from a parsed JSON object
Undefined == "<undefined>"
\* SQL NULL / JavaScript null
Null == "<null>"
\* a JSON array or object where a string is expected: bun:sqlite cannot bind it
Unbindable == "<array>"

Nullish(v) == v = Undefined \/ v = Null
\* a ?? b
Coalesce(a, b) == IF Nullish(a) THEN b ELSE a
\* JavaScript truthiness of a value used as a condition
Truthy(v) == ~Nullish(v) /\ v # ""

(***************************************************************************)
(* Log entries (MessageEntry) and their content items (ToolUse,            *)
(* ToolResult).  An absent property is Undefined; an absent is_error is    *)
(* FALSE (it is only ever tested for truth).                               *)
(***************************************************************************)
NoInput == [command |-> Undefined, description |-> Undefined]
NoToolUseResult == [stdout |-> Undefined, stderr |-> Undefined]

ToolUse(id, name, command, description) ==
  [type |-> "tool_use", id |-> id, name |-> name,
   input |-> [command |-> command, description |-> description],
   tool_use_id |-> Undefined, content |-> Undefined, is_error |-> FALSE]

ToolResult(id, content, isError) ==
  [type |-> "tool_result", id |-> Undefined, name |-> Undefined,
   input |-> NoInput,
   tool_use_id |-> id, content |-> content, is_error |-> isError]

MessageEntry(type, items, cwd, timestamp, toolUseResult) ==
  [type |-> type, content |-> items, cwd |-> cwd, timestamp |-> timestamp,
   toolUseResult |-> toolUseResult]

NoEntry == MessageEntry(Undefined, <<>>, Undefined, Undefined, NoToolUseResult)

(***************************************************************************)
(* A line of a session file: its text is a JSON object (kind "entry"), the *)
(* JSON literal null (kind "null"), text that is not JSON (kind "text") or *)
(* nothing but white space (kind "empty").  bytes is the UTF-8 length of   *)
(* the text without its newline.                                           *)
(***************************************************************************)
EntryLine(entry, bytes) == [kind |-> "entry", entry |-> entry, bytes |-> bytes]
NullLine == [kind |-> "null", entry |-> NoEntry, bytes |-> 4]
TextLine(bytes) == [kind |-> "text", entry |-> NoEntry, bytes |-> bytes]
EmptyLine == [kind |-> "empty", entry |-> NoEntry, bytes |-> 0]

(***************************************************************************)
(* parseJsonlContent: every line is trimmed, an empty one is skipped, one  *)
(* that JSON.parse rejects is skipped, the others are collected.           *)
(***************************************************************************)
\* mutant: JSON.parse outside a try block, the error of a malformed line
\* reaches the caller
RECURSIVE ParseLinesNoCatch(_)
ParseLinesNoCatch(lines) ==
  IF lines = <<>> THEN <<>>
  ELSE LET line == Head(lines)
           rest == ParseLinesNoCatch(Tail(lines))
       IN  CASE line.kind = "empty" -> rest
             [] line.kind = "entry" -> <<[isNull |-> FALSE, entry |-> line.entry]>> \o rest
             [] OTHER               -> <<[isNull |-> TRUE, entry |-> NoEntry]>> \o rest

RECURSIVE ParseLines(_)
ParseLines(lines) ==
  IF lines = <<>> THEN <<>>
  ELSE LET line == Head(lines)
           rest == ParseLines(Tail(lines))
       IN  CASE line.kind = "empty" -> rest
             [] line.kind = "text"  -> rest
             [] line.kind = "null"  -> <<[isNull |-> TRUE, entry |-> NoEntry]>> \o rest
             [] OTHER               -> <<[isNull |-> FALSE, entry |-> line.entry]>> \o rest

\* the last call of a function that is exported for use on its own: its name,
\* its arguments, its value, and for the parser the pendingToolUses map the
\* call ended with (left) and the one the call before it ended with (found)
VARIABLE call

(***************************************************************************)
(* extractCommands.  The state of its loops is the commands emitted so far *)
(* and the pendingToolUses map (a function on the ids that are pending).   *)
(***************************************************************************)
EmptyMap == [x \in {} |-> Null]
MapSet(m, k, v) == [x \in DOMAIN m \cup {k} |-> IF x = k THEN v ELSE m[x]]
MapDelete(m, k) == [x \in DOMAIN m \ {k} |-> m[x]]

\* no function has been called yet
NoCall ==
  [fn |-> "none", args |-> <<>>, value |-> <<>>, left |-> EmptyMap,
   found |-> EmptyMap]

\* mutant: every tool_use item with an id is registered
RECURSIVE RegisterToolUsesAnyTool(_, _, _)
RegisterToolUsesAnyTool(items, entry, pending) ==
  IF items = <<>> THEN pending
  ELSE LET item == Head(items)
           p1 == IF item.type = "tool_use"
                 THEN MapSet(pending, item.id,
                             [toolUse |-> item, cwd |-> entry.cwd,
                              timestamp |-> entry.timestamp])
                 ELSE pending
       IN  RegisterToolUsesAnyTool(Tail(items), entry, p1)

\* the first loop over entry.message.content: Bash tool_use items
RECURSIVE RegisterToolUses(_, _, _)
RegisterToolUses(items, entry, pending) ==
  IF items = <<>> THEN pending
  ELSE LET item == Head(items)
           p1 == IF item.type = "tool_use" /\ item.name = "Bash"
                    /\ Truthy(item.input.command)
                 THEN MapSet(pending, item.id,
                             [toolUse |-> item, cwd |-> entry.cwd,
                              timestamp |-> entry.timestamp])
                 ELSE pending
       IN  RegisterToolUses(Tail(items), entry, p1)

\* the record pushed for a tool_result whose request is pending
ParsedCommand(toolResult, pending, entry, sessionId) ==
  [tool_use_id |-> toolResult.tool_use_id,
   command     |-> pending.toolUse.input.command,
   description |-> Coalesce(pending.toolUse.input.description, Null),
   cwd         |-> Coalesce(pending.cwd, Null),
   stdout      |-> Coalesce(Coalesce(entry.toolUseResult.stdout, toolResult.content), Null),
   stderr      |-> Coalesce(entry.toolUseResult.stderr, Null),
   is_error    |-> IF toolResult.is_error THEN 1 ELSE 0,
   timestamp   |-> Coalesce(pending.timestamp, Null),
   session_id  |-> sessionId]

\* mutant: a tool_result that finds nothing pending is recorded with no command
RECURSIVE MatchToolResultsOrphans(_, _, _, _)
MatchToolResultsOrphans(items, entry, st, sessionId) ==
  IF items = <<>> THEN st
  ELSE LET item == Head(items)
           nothing == [toolUse |-> ToolUse(item.tool_use_id, "Bash", Null, Null),
                       cwd |-> Null, timestamp |-> Null]
           found == IF item.tool_use_id \in DOMAIN st.pending
                    THEN st.pending[item.tool_use_id] ELSE nothing
           st1 == IF item.type = "tool_result"
                  THEN [commands |-> Append(st.commands,
                                      ParsedCommand(item, found, entry, sessionId)),
                        pending  |-> [x \in DOMAIN st.pending \ {item.tool_use_id}
                                        |-> st.pending[x]]]
                  ELSE st
       IN  MatchToolResultsOrphans(Tail(items), entry, st1, sessionId)

\* mutant: a matched request stays in pendingToolUses
RECURSIVE MatchToolResultsKeepPending(_, _, _, _)
MatchToolResultsKeepPending(items, entry, st, sessionId) ==
  IF items = <<>> THEN st
  ELSE LET item == Head(items)
           hit == item.type = "tool_result" /\ item.tool_use_id \in DOMAIN st.pending
           st1 == IF hit
                  THEN [commands |-> Append(st.commands,
                                      ParsedCommand(item, st.pending[item.tool_use_id],
                                                    entry, sessionId)),
                        pending  |-> st.pending]
                  ELSE st
       IN  MatchToolResultsKeepPending(Tail(items), entry, st1, sessionId)

\* the second loop over entry.message.content: tool_result items
RECURSIVE MatchToolResults(_, _, _, _)
MatchToolResults(items, entry, st, sessionId) ==
  IF items = <<>> THEN st
  ELSE LET item == Head(items)
           hit == item.type = "tool_result" /\ item.tool_use_id \in DOMAIN st.pending
           st1 == IF hit
                  THEN [commands |-> Append(st.commands,
                                      ParsedCommand(item, st.pending[item.tool_use_id],
                                                    entry, sessionId)),
                        pending  |-> MapDelete(st.pending, item.tool_use_id)]
                  ELSE st
       IN  MatchToolResults(Tail(items), entry, st1, sessionId)

\* one iteration of the loop over entries
ExtractEntry(entry, st, sessionId) ==
  LET p1 == IF entry.type = "assistant"
            THEN RegisterToolUses(entry.content, entry, st.pending)
            ELSE st.pending
      s1 == [commands |-> st.commands, pending |-> p1]
  IN  IF entry.type = "user"
      THEN MatchToolResults(entry.content, entry, s1, sessionId)
      ELSE s1

\* mutant: the requests of the whole input are registered before any result
\* is matched
RECURSIVE ExtractLoopRequestsFirst(_, _, _)
ExtractLoopRequestsFirst(entries, st, sessionId) ==
  IF entries = <<>> THEN st
  ELSE LET IsAssistant(e) == e.entry.type = "assistant"
           NotAssistant(e) == e.entry.type # "assistant"
           ordered == SelectSeq(entries, IsAssistant) \o SelectSeq(entries, NotAssistant)
       IN  ExtractLoopRequestsFirst(Tail(ordered),
                                    ExtractEntry(Head(ordered).entry, st, sessionId),
                                    sessionId)

RECURSIVE ExtractLoop(_, _, _)
ExtractLoop(entries, st, sessionId) ==
  IF entries = <<>> THEN st
  ELSE ExtractLoop(Tail(entries), ExtractEntry(Head(entries).entry, st, sessionId),
                   sessionId)

\* reading entry.type of a parsed JSON null raises a TypeError
ExtractThrows(entries) == \E i \in 1..Len(entries) : entries[i].isNull

\* the entries the loop reaches: those before a parsed JSON null
BeforeNull(entries) ==
  LET nulls == {i \in 1..Len(entries) : entries[i].isNull}
  IN  IF nulls = {} THEN entries
      ELSE SubSeq(entries, 1, (CHOOSE i \in nulls : \A j \in nulls : i <= j) - 1)

\* what pendingToolUses holds when extractCommands returns or throws: the
\* requests that found no result
PendingAfter(entries, sessionId) ==
  ExtractLoop(BeforeNull(entries), [commands |-> <<>>, pending |-> EmptyMap],
              sessionId).pending

\* mutant: pendingToolUses outlives the call, the next call starts with what
\* the last one left in it
extractCommandsKeepingMap(entries, sessionId) ==
  ExtractLoop(entries, [commands |-> <<>>, pending |-> call.left], sessionId).commands

extractCommands(entries, sessionId) ==
  ExtractLoop(entries, [commands |-> <<>>, pending |-> EmptyMap], sessionId).commands

\* the outcome of parseJsonlContent on the lines of a text
parseJsonlContent(lines, sessionId) ==
  LET entries == ParseLines(lines)
  IN  IF ExtractThrows(entries)
      THEN [threw |-> TRUE, commands |-> <<>>]
      ELSE [threw |-> FALSE, commands |-> extractCommands(entries, sessionId)]

(***************************************************************************)
(* The store: the commands table is the sequence of its rows in rowid      *)
(* order, the indexed_files table a function on the paths that have a row. *)
(***************************************************************************)
BoundColumns(cmd) ==
  {cmd.tool_use_id, cmd.command, cmd.description, cmd.cwd, cmd.stdout,
   cmd.stderr, cmd.timestamp, cmd.session_id}

\* tool_use_id TEXT UNIQUE: a NULL never conflicts
UniqueConflict(rows, cmd) ==
  cmd.tool_use_id # Null
  /\ \E i \in 1..Len(rows) : rows[i].tool_use_id = cmd.tool_use_id

Row(rowid, cmd) ==
  [id |-> rowid, tool_use_id |-> cmd.tool_use_id, command |-> cmd.command,
   description |-> cmd.description, cwd |-> cmd.cwd, stdout |-> cmd.stdout,
   stderr |-> cmd.stderr, is_error |-> cmd.is_error, timestamp |-> cmd.timestamp,
   session_id |-> cmd.session_id]

\* the insert as it would be without UNIQUE on tool_use_id
insertCommandNoUnique(rows, cmd) ==
  IF Unbindable \in BoundColumns(cmd)
  THEN [threw |-> TRUE, rows |-> rows]
  ELSE IF cmd.command = Null
  THEN [threw |-> FALSE, rows |-> rows]
  ELSE [threw |-> FALSE, rows |-> Append(rows, Row(Len(rows) + 1, cmd))]

\* the insert as it would be with ON CONFLICT(tool_use_id) DO UPDATE
insertCommandUpsert(rows, cmd) ==
  IF Unbindable \in BoundColumns(cmd)
  THEN [threw |-> TRUE, rows |-> rows]
  ELSE IF cmd.command = Null
  THEN [threw |-> FALSE, rows |-> rows]
  ELSE IF UniqueConflict(rows, cmd)
  THEN LET i == CHOOSE k \in 1..Len(rows) : rows[k].tool_use_id = cmd.tool_use_id
       IN  [threw |-> FALSE, rows |-> [rows EXCEPT ![i] = Row(i, cmd)]]
  ELSE [threw |-> FALSE, rows |-> Append(rows, Row(Len(rows) + 1, cmd))]

\* INSERT OR IGNORE INTO commands: a value that cannot be bound raises, a row
\* that breaks UNIQUE(tool_use_id) or NOT NULL(command) is skipped
insertCommand(rows, cmd) ==
  IF Unbindable \in BoundColumns(cmd)
  THEN [threw |-> TRUE, rows |-> rows]
  ELSE IF UniqueConflict(rows, cmd) \/ cmd.command = Null
  THEN [threw |-> FALSE, rows |-> rows]
  ELSE [threw |-> FALSE, rows |-> Append(rows, Row(Len(rows) + 1, cmd))]

\* INSERT OR REPLACE INTO indexed_files
updateIndexedFile(idx, filePath, byteOffset, mtime) ==
  MapSet(idx, filePath, [last_byte_offset |-> byteOffset, last_modified |-> mtime])

\* SELECT * FROM indexed_files WHERE file_path = ?  (no row: null)
HasIndexedFile(idx, filePath) == filePath \in DOMAIN idx

(***************************************************************************)
(* indexFile.                                                              *)
(***************************************************************************)
\* mutant: the loop stopping at the first line that starts at or after
\* startOffset
RECURSIVE WalkLinesNextBoundary(_, _, _, _)
WalkLinesNextBoundary(lines, i, bytePos, startOffset) ==
  IF i >= Len(lines) THEN 0
  ELSE LET lineBytes == lines[i + 1].bytes + 1
       IN  IF bytePos >= startOffset THEN i
           ELSE WalkLinesNextBoundary(lines, i + 1, bytePos + lineBytes, startOffset)

\* the loop that finds where startOffset lands; i counts lines from 0
RECURSIVE WalkLines(_, _, _, _)
WalkLines(lines, i, bytePos, startOffset) ==
  IF i >= Len(lines) THEN 0
  ELSE LET lineBytes == lines[i + 1].bytes + 1
       IN  IF bytePos + lineBytes > startOffset THEN i
           ELSE WalkLines(lines, i + 1, bytePos + lineBytes, startOffset)

StartLine(lines, startOffset) ==
  IF startOffset > 0 THEN WalkLines(lines, 0, 0, startOffset) ELSE 0

\* lines.slice(startLine).join("\n"), split again by parseJsonlContent: an
\* empty slice joins to "" and splits to one empty line
NewContent(lines, startLine) ==
  IF startLine >= Len(lines) THEN <<EmptyLine>>
  ELSE SubSeq(lines, startLine + 1, Len(lines))

\* for (const cmd of commands) insertCommand(cmd, db)
RECURSIVE InsertAll(_, _)
InsertAll(rows, cmds) ==
  IF cmds = <<>> THEN [threw |-> FALSE, rows |-> rows]
  ELSE LET r == insertCommand(rows, Head(cmds))
       IN  IF r.threw THEN r ELSE InsertAll(r.rows, Tail(cmds))

\* indexFile as it would be if it returned the number of rows it added
indexFileCountingRows(text, startOffset, sessionId, rows) ==
  IF text.threw
  THEN [threw |-> TRUE, rows |-> rows, count |-> 0, startLine |-> 0]
  ELSE LET startLine == StartLine(text.lines, startOffset)
           parsed == parseJsonlContent(NewContent(text.lines, startLine), sessionId)
           ins == InsertAll(rows, parsed.commands)
       IN  IF parsed.threw
           THEN [threw |-> TRUE, rows |-> rows, count |-> 0, startLine |-> startLine]
           ELSE [threw |-> ins.threw, rows |-> ins.rows,
                 count |-> Len(ins.rows) - Len(rows), startLine |-> startLine]

\* indexFile on the lines readFileSync and split give; text.threw: the read failed
indexFile(text, startOffset, sessionId, rows) ==
  IF text.threw
  THEN [threw |-> TRUE, rows |-> rows, count |-> 0, startLine |-> 0]
  ELSE LET startLine == StartLine(text.lines, startOffset)
           parsed == parseJsonlContent(NewContent(text.lines, startLine), sessionId)
           ins == InsertAll(rows, parsed.commands)
       IN  IF parsed.threw
           THEN [threw |-> TRUE, rows |-> rows, count |-> 0, startLine |-> startLine]
           ELSE [threw |-> ins.threw, rows |-> ins.rows,
                 count |-> Len(parsed.commands), startLine |-> startLine]

(***************************************************************************)
(* The file system: the projects directory holds one session file in each  *)
(* of two project directories.  A path is its project directory, the stem  *)
(* of its file name and its extension.                                     *)
(***************************************************************************)
Path(project, stem, ext) == [project |-> project, stem |-> stem, ext |-> ext]
Files == {Path("p1", "s1", "jsonl"), Path("p2", "s2", "jsonl")}

\* filePath.split("/").pop()?.replace(".jsonl", "")
SessionId(filePath) == filePath.stem

\* the lines the environment writes: a Bash request and its result for two
\* correlation ids, a result whose content is an array and that has no
\* toolUseResult, text that is not JSON, and the JSON literal null
Ids == {"t1", "t2"}
CommandOf(id) == IF id = "t1" THEN "ls" ELSE "pwd"
UseLine(id) ==
  EntryLine(MessageEntry("assistant",
                         <<ToolUse(id, "Bash", CommandOf(id), "Run it")>>,
                         "/work", "2024-01-01T00:00:00Z", NoToolUseResult), 3)
ResultLine(id) ==
  EntryLine(MessageEntry("user", <<ToolResult(id, "content", FALSE)>>,
                         Undefined, Undefined, [stdout |-> "out", stderr |-> ""]), 2)
ArrayResultLine(id) ==
  EntryLine(MessageEntry("user", <<ToolResult(id, Unbindable, TRUE)>>,
                         Undefined, Undefined, NoToolUseResult), 5)

\* what one write appends: whole lines, each with its newline
PairChunks == {<<UseLine(id), ResultLine(id)>> : id \in Ids}
WellFormedChunks ==
  {<<UseLine("t1")>>, <<ResultLine("t1")>>, <<TextLine(1)>>} \cup PairChunks
Chunks == WellFormedChunks \cup {<<UseLine("t2"), ArrayResultLine("t2")>>, <<NullLine>>}
\* what a write leaves without a newline: the beginning of a line, or a whole one
PartialLines == {TextLine(1), ResultLine("t1")}
\* what the beginning of a line may grow into
FinishedLines == {TextLine(1), UseLine("t1"), ResultLine("t1")}

VARIABLES
  rootExists,   \* the projects directory exists
  content,      \* content[f]: the lines of file f
  open,         \* open[f]: the last line of f has no newline yet
  mtime,        \* mtime[f]: modification time of f
  fault,        \* fault[f]: what fails on f ("none", "dir", "stat", "read")
  commands,     \* the commands table
  indexed,      \* the indexed_files table
  res,          \* the last call and what it returned
  writes        \* changes of the file system so far

vars == <<rootExists, content, open, mtime, fault, commands, indexed, res,
          writes, call>>
fsVars == <<rootExists, content, open, mtime, fault>>

\* statSync(filePath).size: every line with its newline, the last one without
\* it while the file is open
RECURSIVE SumBytes(_)
SumBytes(lines) ==
  IF lines = <<>> THEN 0 ELSE Head(lines).bytes + 1 + SumBytes(Tail(lines))
FileSize(f) == SumBytes(content[f]) - (IF open[f] THEN 1 ELSE 0)

\* statSync(filePath)
StatFile(f) ==
  [threw |-> fault[f] = "stat", size |-> FileSize(f), mtimeMs |-> mtime[f]]

\* readFileSync(filePath, "utf-8").split("\n"): text that ends with a newline
\* (or is empty) splits into its lines and one empty string
ReadLines(f) ==
  [threw |-> fault[f] = "read",
   lines |-> IF open[f] THEN content[f] ELSE Append(content[f], EmptyLine)]

(***************************************************************************)
(* sync.                                                                   *)
(***************************************************************************)
ProjectsDir == Path("", "", "")
\* the two kinds of string sync pushes to result.errors
NotFoundError == [kind |-> "not found", path |-> ProjectsDir]
ProcessingError(filePath) == [kind |-> "processing", path |-> filePath]

\* what a call returns (SyncResult), with the call that returned it; again:
\* the step before this call was a call that ran sync without force
Result(op, force) ==
  [op |-> op, force |-> force, again |-> FALSE, filesScanned |-> 0,
   newCommands |-> 0, errors |-> <<>>]
\* the calls that run sync
SyncOps == {"sync", "search", "list"}

\* the .jsonl files of the project directories that can be listed
JsonlFiles == {f \in Files : fault[f] # "dir" /\ f.ext = "jsonl"}
\* readdirSync fixes no order
Orders(S) ==
  {o \in [1..Cardinality(S) -> S] : \A i, j \in DOMAIN o : i # j => o[i] # o[j]}

\* the catch block of the loop over jsonlFiles
FileFailed(st, r1, filePath, rows) ==
  [rows |-> rows, idx |-> st.idx,
   result |-> [r1 EXCEPT !.errors = Append(@, ProcessingError(filePath))]]

\* the iteration as it would be if every sync were a force sync
ProcessFileAlwaysForce(st, filePath, force, stat, text) ==
  LET r1 == [st.result EXCEPT !.filesScanned = @ + 1]
  IN  IF stat.threw THEN FileFailed(st, r1, filePath, st.rows)
      ELSE LET ix == indexFile(text, 0, SessionId(filePath), st.rows)
           IN  IF ix.threw THEN FileFailed(st, r1, filePath, ix.rows)
               ELSE [rows |-> ix.rows,
                     idx |-> updateIndexedFile(st.idx, filePath, stat.size, stat.mtimeMs),
                     result |-> [r1 EXCEPT !.newCommands = @ + ix.count]]

\* the iteration as it would be if the checkpoint's offset served the skip
\* test only and every file that is not skipped were read from byte 0
ProcessFileFromStart(st, filePath, force, stat, text) ==
  LET r1 == [st.result EXCEPT !.filesScanned = @ + 1]
      isIndexed == HasIndexedFile(st.idx, filePath)
  IN  IF stat.threw THEN FileFailed(st, r1, filePath, st.rows)
      ELSE IF ~force /\ isIndexed /\ st.idx[filePath].last_byte_offset >= stat.size
      THEN [st EXCEPT !.result = r1]
      ELSE LET ix == indexFile(text, 0, SessionId(filePath), st.rows)
           IN  IF ix.threw THEN FileFailed(st, r1, filePath, ix.rows)
               ELSE [rows |-> ix.rows,
                     idx |-> updateIndexedFile(st.idx, filePath, stat.size, stat.mtimeMs),
                     result |-> [r1 EXCEPT !.newCommands = @ + ix.count]]

\* the iteration as it would be if the checkpoint were written before the
\* file is indexed
ProcessFileCheckpointFirst(st, filePath, force, stat, text) ==
  LET r1 == [st.result EXCEPT !.filesScanned = @ + 1]
      isIndexed == HasIndexedFile(st.idx, filePath)
  IN  IF stat.threw THEN FileFailed(st, r1, filePath, st.rows)
      ELSE IF ~force /\ isIndexed /\ st.idx[filePath].last_byte_offset >= stat.size
      THEN [st EXCEPT !.result = r1]
      ELSE LET startOffset == IF force THEN 0
                              ELSE IF isIndexed THEN st.idx[filePath].last_byte_offset
                              ELSE 0
               ix == indexFile(text, startOffset, SessionId(filePath), st.rows)
               idx1 == updateIndexedFile(st.idx, filePath, stat.size, stat.mtimeMs)
           IN  IF ix.threw
               THEN [rows |-> ix.rows, idx |-> idx1,
                     result |-> [r1 EXCEPT !.errors = Append(@, ProcessingError(filePath))]]
               ELSE [rows |-> ix.rows, idx |-> idx1,
                     result |-> [r1 EXCEPT !.newCommands = @ + ix.count]]

\* the iteration as it would be if a file were skipped only while its size
\* equals the checkpoint's offset
ProcessFileSkipOnEqual(st, filePath, force, stat, text) ==
  LET r1 == [st.result EXCEPT !.filesScanned = @ + 1]
      isIndexed == HasIndexedFile(st.idx, filePath)
  IN  IF stat.threw THEN FileFailed(st, r1, filePath, st.rows)
      ELSE IF ~force /\ isIndexed /\ st.idx[filePath].last_byte_offset = stat.size
      THEN [st EXCEPT !.result = r1]
      ELSE LET startOffset == IF force THEN 0
                              ELSE IF isIndexed THEN st.idx[filePath].last_byte_offset
                              ELSE 0
               ix == indexFile(text, startOffset, SessionId(filePath), st.rows)
           IN  IF ix.threw THEN FileFailed(st, r1, filePath, ix.rows)
               ELSE [rows |-> ix.rows,
                     idx |-> updateIndexedFile(st.idx, filePath, stat.size, stat.mtimeMs),
                     result |-> [r1 EXCEPT !.newCommands = @ + ix.count]]

\* the iteration as it would be if a file whose modification time differs
\* from the stored one were never skipped
ProcessFileOnMtime(st, filePath, force, stat, text) ==
  LET r1 == [st.result EXCEPT !.filesScanned = @ + 1]
      isIndexed == HasIndexedFile(st.idx, filePath)
  IN  IF stat.threw THEN FileFailed(st, r1, filePath, st.rows)
      ELSE IF /\ ~force /\ isIndexed
              /\ st.idx[filePath].last_byte_offset >= stat.size
              /\ st.idx[filePath].last_modified = stat.mtimeMs
      THEN [st EXCEPT !.result = r1]
      ELSE LET startOffset == IF force THEN 0
                              ELSE IF isIndexed THEN st.idx[filePath].last_byte_offset
                              ELSE 0
               ix == indexFile(text, startOffset, SessionId(filePath), st.rows)
           IN  IF ix.threw THEN FileFailed(st, r1, filePath, ix.rows)
               ELSE [rows |-> ix.rows,
                     idx |-> updateIndexedFile(st.idx, filePath, stat.size, stat.mtimeMs),
                     result |-> [r1 EXCEPT !.newCommands = @ + ix.count]]

\* the iteration as it would be if a force sync, though it skips no file,
\* resumed at the checkpoint's offset
ProcessFileForceResumes(st, filePath, force, stat, text) ==
  LET r1 == [st.result EXCEPT !.filesScanned = @ + 1]
      isIndexed == HasIndexedFile(st.idx, filePath)
  IN  IF stat.threw THEN FileFailed(st, r1, filePath, st.rows)
      ELSE IF ~force /\ isIndexed /\ st.idx[filePath].last_byte_offset >= stat.size
      THEN [st EXCEPT !.result = r1]
      ELSE LET startOffset == IF isIndexed THEN st.idx[filePath].last_byte_offset
                              ELSE 0
               ix == indexFile(text, startOffset, SessionId(filePath), st.rows)
           IN  IF ix.threw THEN FileFailed(st, r1, filePath, ix.rows)
               ELSE [rows |-> ix.rows,
                     idx |-> updateIndexedFile(st.idx, filePath, stat.size, stat.mtimeMs),
                     result |-> [r1 EXCEPT !.newCommands = @ + ix.count]]

\* the iteration as it would be if the checkpoint were the size of the text
\* that indexFile has read, not the size statSync gave before
ProcessFileCheckpointAtRead(st, filePath, force, stat, text) ==
  LET r1 == [st.result EXCEPT !.filesScanned = @ + 1]
      isIndexed == HasIndexedFile(st.idx, filePath)
  IN  IF stat.threw THEN FileFailed(st, r1, filePath, st.rows)
      ELSE IF ~force /\ isIndexed /\ st.idx[filePath].last_byte_offset >= stat.size
      THEN [st EXCEPT !.result = r1]
      ELSE LET startOffset == IF force THEN 0
                              ELSE IF isIndexed THEN st.idx[filePath].last_byte_offset
                              ELSE 0
               ix == indexFile(text, startOffset, SessionId(filePath), st.rows)
           IN  IF ix.threw THEN FileFailed(st, r1, filePath, ix.rows)
               ELSE [rows |-> ix.rows,
                     idx |-> updateIndexedFile(st.idx, filePath,
                                               SumBytes(text.lines) - 1, stat.mtimeMs),
                     result |-> [r1 EXCEPT !.newCommands = @ + ix.count]]

\* one iteration of the loop over jsonlFiles; stat and text are what statSync
\* and readFileSync give for the file
ProcessFile(st, filePath, force, stat, text) ==
  LET r1 == [st.result EXCEPT !.filesScanned = @ + 1]
      isIndexed == HasIndexedFile(st.idx, filePath)
  IN  IF stat.threw THEN FileFailed(st, r1, filePath, st.rows)
      ELSE IF ~force /\ isIndexed /\ st.idx[filePath].last_byte_offset >= stat.size
      THEN [st EXCEPT !.result = r1]
      ELSE LET startOffset == IF force THEN 0
                              ELSE IF isIndexed THEN st.idx[filePath].last_byte_offset
                              ELSE 0
               ix == indexFile(text, startOffset, SessionId(filePath), st.rows)
           IN  IF ix.threw THEN FileFailed(st, r1, filePath, ix.rows)
               ELSE [rows |-> ix.rows,
                     idx |-> updateIndexedFile(st.idx, filePath, stat.size, stat.mtimeMs),
                     result |-> [r1 EXCEPT !.newCommands = @ + ix.count]]

\* the loop as it would be without the try/catch around an iteration: the
\* first failure ends it
RECURSIVE SyncLoopNoCatch(_, _, _)
SyncLoopNoCatch(jsonlFiles, st, force) ==
  IF jsonlFiles = <<>> THEN st
  ELSE LET filePath == Head(jsonlFiles)
           st1 == ProcessFile(st, filePath, force, StatFile(filePath), ReadLines(filePath))
       IN  IF Len(st1.result.errors) > Len(st.result.errors) THEN st1
           ELSE SyncLoopNoCatch(Tail(jsonlFiles), st1, force)

RECURSIVE SyncLoop(_, _, _)
SyncLoop(jsonlFiles, st, force) ==
  IF jsonlFiles = <<>> THEN st
  ELSE LET filePath == Head(jsonlFiles)
       IN  SyncLoop(Tail(jsonlFiles),
                    ProcessFile(st, filePath, force, StatFile(filePath), ReadLines(filePath)),
                    force)

\* sync as it would be without the existsSync test
syncNoExistsCheck(op, force, jsonlFiles) ==
  SyncLoop(jsonlFiles,
           [rows |-> commands, idx |-> indexed, result |-> Result(op, force)],
           force)

\* sync({force}) called by op, with the files found in the order jsonlFiles
sync(op, force, jsonlFiles) ==
  LET st0 == [rows |-> commands, idx |-> indexed, result |-> Result(op, force)]
  IN  IF ~rootExists
      THEN [st0 EXCEPT !.result.errors = <<NotFoundError>>]
      ELSE SyncLoop(jsonlFiles, st0, force)

(***************************************************************************)
(* The initial state: an empty store, empty session files.                 *)
(***************************************************************************)
Init ==
  /\ rootExists = TRUE
  /\ content = [f \in Files |-> <<>>]
  /\ open = [f \in Files |-> FALSE]
  /\ mtime = [f \in Files |-> 0]
  /\ fault = [f \in Files |-> "none"]
  /\ commands = <<>>
  /\ indexed = EmptyMap
  /\ res = Result("init", FALSE)
  /\ call = NoCall
  /\ writes = 0

(***************************************************************************)
(* The calls of the tool.                                                  *)
(***************************************************************************)
\* mutant: a sync that empties the session files it has read
SyncConsuming(force) ==
  \E order \in Orders(JsonlFiles) :
    LET out == sync("sync", force, order)
    IN  /\ commands' = out.rows
        /\ indexed' = out.idx
        /\ res' = [out.result EXCEPT !.again = (res.op \in SyncOps /\ ~res.force)]
        /\ content' = [f \in Files |-> <<>>]
        /\ UNCHANGED <<rootExists, open, mtime, fault, writes, call>>

\* deja sync [--force]
Sync(force) ==
  \E order \in Orders(JsonlFiles) :
    LET out == sync("sync", force, order)
    IN  /\ commands' = out.rows
        /\ indexed' = out.idx
        /\ res' = [out.result EXCEPT !.again = (res.op \in SyncOps /\ ~res.force)]
        /\ UNCHANGED <<fsVars, writes, call>>

\* mutant: the auto-sync runs whatever noSync is
AutoSyncAlways(op, noSync) ==
  \E order \in Orders(JsonlFiles) :
    LET out == sync(op, FALSE, order)
    IN  /\ commands' = out.rows
        /\ indexed' = out.idx
        /\ res' = [out.result EXCEPT !.again = (res.op \in SyncOps /\ ~res.force)]
        /\ UNCHANGED <<fsVars, writes>>

\* the auto-sync of search and list: sync() unless noSync
AutoSync(op, noSync) ==
  \E order \in Orders(JsonlFiles) :
    LET out == IF noSync
               THEN [rows |-> commands, idx |-> indexed, result |-> Result(op, FALSE)]
               ELSE sync(op, FALSE, order)
    IN  /\ commands' = out.rows
        /\ indexed' = out.idx
        /\ res' = [out.result EXCEPT !.again = (res.op \in SyncOps /\ ~res.force)]
        /\ UNCHANGED <<fsVars, writes>>

\* a direct call of insertCommand
ManualCommand(id) ==
  [tool_use_id |-> id, command |-> "echo", description |-> Null, cwd |-> Null,
   stdout |-> Null, stderr |-> Null, is_error |-> 0, timestamp |-> Null,
   session_id |-> "manual"]

InsertCommand(id) ==
  /\ commands' = insertCommand(commands, ManualCommand(id)).rows
  /\ res' = Result("insert", FALSE)
  /\ UNCHANGED <<fsVars, indexed, writes, call>>

(***************************************************************************)
(* The environment: the assistant writes the session files.                *)
(***************************************************************************)
Written(f) ==
  /\ writes < MaxWrites
  /\ rootExists
  /\ writes' = writes + 1
  /\ mtime' = [mtime EXCEPT ![f] = @ + 1]
  /\ res' = Result("write", FALSE)
  /\ UNCHANGED <<rootExists, fault, commands, indexed, call>>

\* whole lines, each with its newline
AppendLines(f, chunk) ==
  /\ ~open[f]
  /\ Len(content[f]) + Len(chunk) <= MaxLines
  /\ Written(f)
  /\ content' = [content EXCEPT ![f] = @ \o chunk]
  /\ UNCHANGED open

\* a line, or the beginning of one, without its newline
AppendPartial(f, line) ==
  /\ ~open[f]
  /\ Len(content[f]) < MaxLines
  /\ Written(f)
  /\ content' = [content EXCEPT ![f] = Append(@, line)]
  /\ open' = [open EXCEPT ![f] = TRUE]

\* the rest of the open line and its newline
FinishLine(f, line) ==
  /\ open[f]
  /\ LET last == content[f][Len(content[f])]
     IN  IF last.kind = "text" THEN line.bytes >= last.bytes ELSE line = last
  /\ Written(f)
  /\ content' = [content EXCEPT ![f] = Append(SubSeq(@, 1, Len(@) - 1), line)]
  /\ open' = [open EXCEPT ![f] = FALSE]

\* the file is emptied
Truncate(f) ==
  /\ content[f] # <<>>
  /\ Written(f)
  /\ content' = [content EXCEPT ![f] = <<>>]
  /\ open' = [open EXCEPT ![f] = FALSE]

\* the file, or its project directory, becomes unreadable or readable again
SetFault(f, kind) ==
  /\ writes < MaxWrites
  /\ rootExists
  /\ kind # fault[f]
  /\ fault' = [fault EXCEPT ![f] = kind]
  /\ writes' = writes + 1
  /\ res' = Result("write", FALSE)
  /\ UNCHANGED <<rootExists, content, open, mtime, commands, indexed, call>>

\* the projects directory is moved away or back
SetRoot ==
  /\ writes < MaxWrites
  /\ rootExists' = ~rootExists
  /\ writes' = writes + 1
  /\ res' = Result("write", FALSE)
  /\ UNCHANGED <<content, open, mtime, fault, commands, indexed, call>>

\* the indexer and the environment
Next ==
  \/ \E force \in BOOLEAN : Sync(force)
  \/ \E f \in Files, chunk \in Chunks : AppendLines(f, chunk)
  \/ \E f \in Files, line \in PartialLines : AppendPartial(f, line)
  \/ \E f \in Files, line \in FinishedLines : FinishLine(f, line)
  \/ \E f \in Files : Truncate(f)
  \/ \E f \in Files, kind \in {"none", "dir", "stat", "read"} : SetFault(f, kind)
  \/ SetRoot

Spec == Init /\ [][Next]_vars

\* session files that only grow by whole well-formed lines, and non-force syncs
NextAppend ==
  \/ Sync(FALSE)
  \/ \E f \in Files, chunk \in WellFormedChunks : AppendLines(f, chunk)

SpecAppend == Init /\ [][NextAppend]_vars

\* the same with force syncs
NextResync ==
  \/ \E force \in BOOLEAN : Sync(force)
  \/ \E f \in Files, chunk \in WellFormedChunks : AppendLines(f, chunk)

SpecResync == Init /\ [][NextResync]_vars

(***************************************************************************)
(* What a sync will do to one file, read off the state the sync starts in. *)
(***************************************************************************)
StoredIds(rows) == {rows[i].tool_use_id : i \in 1..Len(rows)}
RowsOf(id) == {i \in 1..Len(commands) : commands[i].tool_use_id = id}

\* the test that skips a file
Skipped(f, force) ==
  ~force /\ HasIndexedFile(indexed, f) /\ indexed[f].last_byte_offset >= FileSize(f)
StartOffsetOf(f, force) ==
  IF force \/ ~HasIndexedFile(indexed, f) THEN 0 ELSE indexed[f].last_byte_offset
\* what the parser returns for the part of the file indexFile hands it
ParsedFrom(f, force) ==
  LET lines == ReadLines(f).lines
  IN  parseJsonlContent(NewContent(lines, StartLine(lines, StartOffsetOf(f, force))),
                        SessionId(f))
\* the records insertCommand takes before one cannot be bound
RECURSIVE BoundPrefix(_)
BoundPrefix(cmds) ==
  IF cmds = <<>> \/ Unbindable \in BoundColumns(Head(cmds)) THEN <<>>
  ELSE <<Head(cmds)>> \o BoundPrefix(Tail(cmds))
\* processing the file throws
Throws(f, force) ==
  \/ fault[f] = "stat"
  \/ /\ ~Skipped(f, force)
     /\ \/ fault[f] = "read"
        \/ ParsedFrom(f, force).threw
        \/ BoundPrefix(ParsedFrom(f, force).commands) # ParsedFrom(f, force).commands
\* the file is parsed, inserted and checkpointed
Completes(f, force) == ~Skipped(f, force) /\ ~Throws(f, force)
\* the ids handed to insertCommand without an exception
IngestedIds(f, force) ==
  IF Skipped(f, force) \/ fault[f] \in {"stat", "read"} \/ ParsedFrom(f, force).threw
  THEN {}
  ELSE StoredIds(BoundPrefix(ParsedFrom(f, force).commands))

\* a line holds the Bash request, or the result, with this correlation id
IsRequest(line, id) ==
  /\ line.kind = "entry"
  /\ line.entry.type = "assistant"
  /\ \E k \in 1..Len(line.entry.content) :
       LET item == line.entry.content[k]
       IN  item.type = "tool_use" /\ item.name = "Bash"
           /\ Truthy(item.input.command) /\ item.id = id
IsResult(line, id) ==
  /\ line.kind = "entry"
  /\ line.entry.type = "user"
  /\ \E k \in 1..Len(line.entry.content) :
       LET item == line.entry.content[k]
       IN  item.type = "tool_result" /\ item.tool_use_id = id
\* the ids whose request and, after it, result are both among the lines
CompletePairIds(lines) ==
  {id \in Ids : \E i, j \in 1..Len(lines) :
                  i < j /\ IsRequest(lines[i], id) /\ IsResult(lines[j], id)}

(***************************************************************************)
(* The properties.                                                         *)
(***************************************************************************)
\* C1: whatever insertCommand, sync and force-sync calls have run, no two rows
\* of the commands table hold the same tool_use_id.
UniqueToolUseId ==
  \A i, j \in 1..Len(commands) :
    commands[i].tool_use_id = commands[j].tool_use_id => i = j
\* a sync has ingested more records than the table has rows: an id that was
\* already stored came again and added nothing
UniqueToolUseIdWitness ==
  res.op = "sync" /\ commands # <<>> /\ res.newCommands > Len(commands)

\* C2: no step changes or removes a stored row; an insert of a stored id with
\* other fields keeps the row that was stored first.
RowsNeverChange ==
  [][\A i \in 1..Len(commands) :
       i <= Len(commands') /\ commands'[i] = commands[i]]_vars
\* insertCommand has just run with a stored id and other fields, and every id
\* still has the row a session file gave it
RowsNeverChangeWitness ==
  /\ res.op = "insert"
  /\ StoredIds(commands) = Ids
  /\ \A i \in 1..Len(commands) : commands[i].session_id # "manual"

\* C3: for files that only grow by whole lines and are synced without force,
\* after a sync every Bash request/result pair that is in a file is stored in
\* exactly one row.
PairsStoredExactlyOnce ==
  (res.op = "sync" /\ res.errors = <<>>)
    => \A f \in Files : \A id \in CompletePairIds(content[f]) :
         Cardinality(RowsOf(id)) = 1

\* C4: a non-force sync that follows a non-force sync with no change of the
\* files in between reports newCommands = 0, counts every candidate file in
\* filesScanned, and leaves the commands table and every checkpoint as they were.
RepeatedSyncIdle ==
  [][(res.op \in SyncOps /\ ~res.force /\ res'.op \in SyncOps /\ ~res'.force)
       => /\ res'.newCommands = 0
          /\ res'.filesScanned = (IF rootExists THEN Cardinality(JsonlFiles) ELSE 0)
          /\ commands' = commands
          /\ indexed' = indexed]_vars
\* the second of two non-force syncs in a row over files that hold stored
\* commands
RepeatedSyncIdleWitness ==
  /\ res.op = "sync" /\ res.again /\ ~res.force
  /\ res.newCommands = 0
  /\ res.filesScanned = Cardinality(Files)
  /\ commands # <<>>

\* the output of a result line can be bound as text
Bindable(line) ==
  \A k \in 1..Len(line.entry.content) :
    Coalesce(line.entry.toolUseResult.stdout, line.entry.content[k].content)
      # Unbindable
\* after their first k lines the lines are n request/result pairs of n ids
PairsAfter(lines, k, n) ==
  /\ Len(lines) = k + 2 * n
  /\ \A m \in 0..(n - 1) :
       \E id \in Ids : /\ IsRequest(lines[k + 2 * m + 1], id)
                       /\ IsResult(lines[k + 2 * m + 2], id)
                       /\ Bindable(lines[k + 2 * m + 2])
  /\ Cardinality(CompletePairIds(SubSeq(lines, k + 1, Len(lines)))) = n
AppendedIds(f, k) == CompletePairIds(SubSeq(content[f], k + 1, Len(content[f])))
\* file f was synced when it held its first k lines, n pairs have been
\* appended to it since, and no other file has anything to index
AppendedPairs(f, k, n) ==
  /\ rootExists /\ f \in JsonlFiles /\ fault[f] = "none" /\ ~open[f]
  /\ HasIndexedFile(indexed, f)
  /\ PairsAfter(content[f], k, n)
  /\ indexed[f].last_byte_offset = SumBytes(SubSeq(content[f], 1, k))
  /\ \A g \in JsonlFiles \ {f} : Skipped(g, FALSE) /\ fault[g] # "stat"

\* C5 as stated: when n complete pairs have been appended to a synced file, a
\* non-force sync reports newCommands = n, adds exactly n rows and starts
\* parsing at the first appended line.
AppendedPairsAddRows ==
  [][\A f \in Files, k \in 0..MaxLines, n \in 1..MaxLines :
       (AppendedPairs(f, k, n) /\ res'.op \in SyncOps /\ ~res'.force)
         => /\ res'.newCommands = n
            /\ Len(commands') = Len(commands) + n
            /\ StartLine(ReadLines(f).lines, indexed[f].last_byte_offset) = k]_vars

\* C5: when n complete pairs have been appended to a synced file, a non-force
\* sync reports newCommands = n, starts parsing at the first appended line, and
\* adds one row for each appended pair whose id is not stored yet.
AppendedPairsIndexed ==
  [][\A f \in Files, k \in 0..MaxLines, n \in 1..MaxLines :
       (AppendedPairs(f, k, n) /\ res'.op \in SyncOps /\ ~res'.force)
         => /\ res'.newCommands = n
            /\ Len(commands') = Len(commands)
                 + Cardinality(AppendedIds(f, k) \ StoredIds(commands))
            /\ StartLine(ReadLines(f).lines, indexed[f].last_byte_offset) = k]_vars
\* a file holds two pairs, both stored from it, and the last sync reported one
\* new command: the second pair was appended after the first was indexed
AppendedPairsIndexedWitness ==
  /\ res.op = "sync" /\ ~res.force /\ res.newCommands = 1
  /\ \E f \in Files :
       /\ Len(content[f]) = 4
       /\ CompletePairIds(content[f]) = Ids
       /\ Len(commands) = 2
       /\ \A i \in 1..Len(commands) : commands[i].session_id = SessionId(f)

\* C6: a force sync that follows a sync, the files unchanged since, leaves the
\* number of rows in the commands table as it was.
ForceKeepsRowCount ==
  [][(res.op \in SyncOps /\ res'.op \in SyncOps /\ res'.force)
       => Len(commands') = Len(commands)]_vars

\* C7: no step other than a force sync removes a checkpoint or lowers its offset.
CheckpointNeverLowered ==
  [][~(res'.op \in SyncOps /\ res'.force)
       => \A f \in DOMAIN indexed :
            /\ f \in DOMAIN indexed'
            /\ indexed'[f].last_byte_offset >= indexed[f].last_byte_offset]_vars
\* a non-force sync has run over a file that is shorter than its checkpoint
CheckpointNeverLoweredWitness ==
  /\ res.op = "sync" /\ ~res.force /\ res.errors = <<>>
  /\ \E f \in JsonlFiles :
       HasIndexedFile(indexed, f) /\ indexed[f].last_byte_offset > FileSize(f)

\* the records parsed from the files of S that the sync completes
RECURSIVE ParsedTotal(_, _)
ParsedTotal(S, force) ==
  IF S = {} THEN 0
  ELSE LET f == CHOOSE x \in S : TRUE
       IN  (IF Completes(f, force) THEN Len(ParsedFrom(f, force).commands) ELSE 0)
             + ParsedTotal(S \ {f}, force)

\* C8 as stated: newCommands is the number of rows the sync added to the
\* commands table.
NewCommandsCountsRows ==
  [][res'.op \in SyncOps => res'.newCommands = Len(commands') - Len(commands)]_vars

\* C8: newCommands is the number of records parsed from the files the sync
\* completed; the rows it added are one for each id handed to insertCommand
\* that was not stored yet.
NewCommandsCountsParsed ==
  [][(res'.op \in SyncOps /\ rootExists)
       => /\ res'.newCommands = ParsedTotal(JsonlFiles, res'.force)
          /\ Len(commands') - Len(commands) =
               Cardinality(UNION {IngestedIds(f, res'.force) : f \in JsonlFiles}
                             \ StoredIds(commands))]_vars
\* a force sync right after a non-force sync has counted the records it
\* parsed again
NewCommandsCountsParsedWitness ==
  /\ res.op = "sync" /\ res.force /\ res.again
  /\ res.errors = <<>>
  /\ res.newCommands = Len(commands) /\ commands # <<>>

\* C9: while the projects directory does not exist, a sync returns one error,
\* filesScanned = 0 and newCommands = 0, and leaves the commands table and
\* the checkpoints as they were.
MissingRootReported ==
  [][(res'.op \in SyncOps /\ ~rootExists)
       => /\ res'.errors = <<NotFoundError>>
          /\ res'.filesScanned = 0
          /\ res'.newCommands = 0
          /\ commands' = commands
          /\ indexed' = indexed]_vars
\* a sync has run without the projects directory, the store not empty
MissingRootReportedWitness ==
  /\ res.op = "sync" /\ ~rootExists
  /\ Len(res.errors) = 1
  /\ commands # <<>> /\ DOMAIN indexed # {}

\* C10: a sync reports one error for each file whose processing throws, naming
\* it, counts every candidate file, and gives every other file the checkpoint
\* and the stored commands it would have got without the failure.
FailuresIsolated ==
  [][(res'.op \in SyncOps /\ rootExists)
       => LET force == res'.force
              failing == {f \in JsonlFiles : Throws(f, force)}
          IN  /\ Len(res'.errors) = Cardinality(failing)
              /\ {res'.errors[i] : i \in 1..Len(res'.errors)}
                   = {ProcessingError(f) : f \in failing}
              /\ res'.filesScanned = Cardinality(JsonlFiles)
              /\ \A f \in JsonlFiles \ failing :
                   /\ HasIndexedFile(indexed', f)
                   /\ indexed'[f] = IF Skipped(f, force) THEN indexed[f]
                                    ELSE [last_byte_offset |-> FileSize(f),
                                          last_modified |-> mtime[f]]
                   /\ IngestedIds(f, force) \subseteq StoredIds(commands')]_vars
\* a sync has failed on one file and indexed commands from the other
FailuresIsolatedWitness ==
  /\ res.op = "sync" /\ Len(res.errors) = 1
  /\ res.filesScanned = Cardinality(Files)
  /\ res.newCommands > 0 /\ commands # <<>>

\* the checkpoint of a file, or none
CheckpointOf(idx, f) == IF HasIndexedFile(idx, f) THEN <<idx[f]>> ELSE <<>>

\* the bytes of the file a sync reads commands from
BytesProcessed(f, force) ==
  IF Skipped(f, force) THEN {}
  ELSE (StartOffsetOf(f, force) + 1)..FileSize(f)

\* C11 as stated: a pass that completes a file has stored every command it
\* extracted when it writes the checkpoint; a pass that an exception
\* interrupts, force or not, leaves the checkpoint as it was, and the next
\* non-force sync processes the byte range of the interrupted pass again.
InterruptedPassRepeated ==
  [][(res'.op \in SyncOps /\ rootExists)
       => \A f \in JsonlFiles :
            /\ Completes(f, res'.force)
                 => /\ IngestedIds(f, res'.force) \subseteq StoredIds(commands')
                    /\ CheckpointOf(indexed', f) =
                         <<[last_byte_offset |-> FileSize(f),
                            last_modified |-> mtime[f]]>>
            /\ Throws(f, res'.force)
                 => /\ CheckpointOf(indexed', f) = CheckpointOf(indexed, f)
                    /\ fault[f] # "stat"
                         => BytesProcessed(f, FALSE)' = BytesProcessed(f, res'.force)]_vars

\* C11: a pass that completes a file has stored every command it extracted
\* when it writes the checkpoint; a pass that an exception interrupts leaves
\* the checkpoint as it was, and after an interrupted non-force pass the next
\* non-force sync processes the same bytes again.
CheckpointAfterInserts ==
  [][(res'.op \in SyncOps /\ rootExists)
       => \A f \in JsonlFiles :
            /\ Completes(f, res'.force)
                 => /\ IngestedIds(f, res'.force) \subseteq StoredIds(commands')
                    /\ CheckpointOf(indexed', f) =
                         <<[last_byte_offset |-> FileSize(f),
                            last_modified |-> mtime[f]]>>
            /\ Throws(f, res'.force)
                 => /\ CheckpointOf(indexed', f) = CheckpointOf(indexed, f)
                    /\ (~res'.force /\ fault[f] # "stat")
                         => BytesProcessed(f, FALSE)' = BytesProcessed(f, FALSE)]_vars
\* a sync has failed on a file after inserting a command from it: the row is
\* there, the file's checkpoint is below its size
CheckpointAfterInsertsWitness ==
  /\ res.op = "sync" /\ Len(res.errors) = 1
  /\ \E f \in JsonlFiles :
       /\ res.errors[1] = ProcessingError(f)
       /\ fault[f] = "none"
       /\ \E i \in 1..Len(commands) : commands[i].session_id = SessionId(f)
       /\ ~HasIndexedFile(indexed, f) \/ indexed[f].last_byte_offset < FileSize(f)

(***************************************************************************)
(* parseJsonlContent called on its own, as the tests call it.              *)
(***************************************************************************)
\* a tool_use of another tool, whose input happens to hold a command
OtherToolLine(id) ==
  EntryLine(MessageEntry("assistant",
                         <<ToolUse(id, "Read", CommandOf(id), Undefined)>>,
                         "/tmp", Undefined, NoToolUseResult), 3)
\* a Bash tool_use whose command is the empty string
EmptyCommandLine(id) ==
  EntryLine(MessageEntry("assistant", <<ToolUse(id, "Bash", "", "Run it")>>,
                         "/tmp", "2024-01-01T00:00:00Z", NoToolUseResult), 3)
\* a Bash tool_use whose input has no command
NoCommandLine(id) ==
  EntryLine(MessageEntry("assistant", <<ToolUse(id, "Bash", Undefined, Undefined)>>,
                         "/tmp", "2024-01-01T00:00:00Z", NoToolUseResult), 3)

PairLines == {UseLine(id) : id \in Ids} \cup {ResultLine(id) : id \in Ids}
ParseLineSet ==
  PairLines \cup {TextLine(1), NullLine, OtherToolLine("t1"),
                  EmptyCommandLine("t2"), NoCommandLine("t1")}
LaterLineSet == PairLines \cup {TextLine(1)}

SeqsUpTo(S, n) == UNION {[1..k -> S] : k \in 0..n}

\* parseJsonlContent(content, sessionId)
ParseCall(lines, sessionId) ==
  /\ call' = [fn    |-> "parseJsonlContent",
              args  |-> <<lines, sessionId>>,
              value |-> parseJsonlContent(lines, sessionId),
              left  |-> PendingAfter(ParseLines(lines), sessionId),
              found |-> call.left]
  /\ UNCHANGED <<fsVars, commands, indexed, res, writes>>

\* one call on any text of a few lines
NextParse ==
  /\ call.fn = "none"
  /\ \E lines \in SeqsUpTo(ParseLineSet, MaxEntries) : ParseCall(lines, "session_123")

SpecParse == Init /\ [][NextParse]_vars

\* call after call on short texts of requests, results and malformed lines
NextParseAgain ==
  \E lines \in SeqsUpTo(LaterLineSet, MaxLater) : ParseCall(lines, "session_123")

SpecParseAgain == Init /\ [][NextParseAgain]_vars

\* the text of the last parse call and the records it returned
Parsed == call.fn = "parseJsonlContent"
ParsedText == call.args[1]
ParsedRecords == call.value.commands
\* the correlation ids of the lines that hold a result, in input order
RECURSIVE ResultIds(_)
ResultIds(lines) ==
  IF lines = <<>> THEN <<>>
  ELSE LET here == {id \in Ids : IsResult(Head(lines), id)}
       IN  (IF here = {} THEN <<>> ELSE <<CHOOSE id \in here : TRUE>>)
           \o ResultIds(Tail(lines))
\* N well-formed pairs with distinct ids, each request before its result, and
\* lines that are not JSON
WellFormedPairs(lines) ==
  /\ \A i \in 1..Len(lines) : lines[i] \in PairLines \/ lines[i].kind = "text"
  /\ \A id \in Ids :
       LET requests == {i \in 1..Len(lines) : IsRequest(lines[i], id)}
           results  == {i \in 1..Len(lines) : IsResult(lines[i], id)}
       IN  /\ Cardinality(requests) <= 1
           /\ Cardinality(requests) = Cardinality(results)
           /\ \A i \in requests, j \in results : i < j

\* C12: a text of N well-formed Bash request/result pairs with distinct ids
\* and of lines that are not JSON parses without an exception into exactly
\* N records, one per pair, in the order in which the pairs are completed in
\* the input, each with the command of its request.
WellFormedPairsParsed ==
  (Parsed /\ WellFormedPairs(ParsedText))
    => /\ ~call.value.threw
       /\ Len(ParsedRecords) = Len(ResultIds(ParsedText))
       /\ \A k \in 1..Len(ParsedRecords) :
            /\ ParsedRecords[k].tool_use_id = ResultIds(ParsedText)[k]
            /\ ParsedRecords[k].command = CommandOf(ResultIds(ParsedText)[k])
WellFormedPairsParsedWitness ==
  /\ Parsed
  /\ WellFormedPairs(ParsedText)
  /\ \E i \in 1..Len(ParsedText) : ParsedText[i].kind = "text"
  /\ Len(ParsedText) = 4
  /\ Len(ParsedRecords) = 1

\* the text without its line i
Without(lines, i) == SubSeq(lines, 1, i - 1) \o SubSeq(lines, i + 1, Len(lines))
\* the text holds a request for the id and, after it, a result for it
RequestThenResult(lines, id) ==
  \E i, j \in 1..Len(lines) :
    i < j /\ IsRequest(lines[i], id) /\ IsResult(lines[j], id)
\* the records returned that carry the id
RecordsOf(records, id) == {k \in 1..Len(records) : records[k].tool_use_id = id}

\* C13: a Bash request that no result for its id follows in the parsed text
\* contributes no record (the call returns what it returns on the text
\* without that line), and it is not retained: when the call before left a
\* request pending, a result for its id in this text matches only a request
\* of this text that precedes it.
PendingDropped ==
  Parsed
    => /\ \A id \in Ids, i \in 1..Len(ParsedText) :
            (/\ IsRequest(ParsedText[i], id)
             /\ \A j \in (i + 1)..Len(ParsedText) : ~IsResult(ParsedText[j], id))
              => parseJsonlContent(Without(ParsedText, i), call.args[2]) = call.value
       /\ \A id \in DOMAIN call.found :
            ~RequestThenResult(ParsedText, id) => RecordsOf(ParsedRecords, id) = {}
PendingDroppedWitness ==
  /\ Parsed
  /\ Len(ParsedText) > 1
  /\ \E id \in DOMAIN call.found :
       /\ IsResult(ParsedText[1], id)
       /\ RecordsOf(ParsedRecords, id) = {}
  /\ call.left # EmptyMap

\* line j holds a result for the id and no request for the id is pending
\* there: none precedes it, or a result for the id has come since
OrphanResult(lines, j, id) ==
  /\ IsResult(lines[j], id)
  /\ ~\E i \in 1..(j - 1) :
        /\ IsRequest(lines[i], id)
        /\ \A k \in (i + 1)..(j - 1) : ~IsResult(lines[k], id)

\* C14: a tool_result whose id has no pending request is dropped silently:
\* the call returns exactly what it returns on the text without that line,
\* so the line adds no record, raises no error and leaves the records of the
\* other ids as they are; a call that returns has one record of the id for
\* each result of the id that is not such an orphan.
OrphanResultDropped ==
  Parsed
    => \A id \in Ids, j \in 1..Len(ParsedText) :
         OrphanResult(ParsedText, j, id)
           => /\ parseJsonlContent(Without(ParsedText, j), call.args[2]) = call.value
              /\ call.value.threw
                   \/ Cardinality(RecordsOf(ParsedRecords, id))
                        = Cardinality({k \in 1..Len(ParsedText) :
                                        /\ IsResult(ParsedText[k], id)
                                        /\ ~OrphanResult(ParsedText, k, id)})
OrphanResultDroppedWitness ==
  /\ Parsed
  /\ ~call.value.threw
  /\ Len(ParsedText) > 1
  /\ \E id \in Ids :
       /\ OrphanResult(ParsedText, 1, id)
       /\ RecordsOf(ParsedRecords, id) = {}
       /\ Len(ParsedRecords) = 1

\* a tool_use line that registers nothing: another tool, or Bash with an
\* empty or absent command
Unregistered(line, id) ==
  /\ line.kind = "entry"
  /\ line.entry.type = "assistant"
  /\ \E k \in 1..Len(line.entry.content) :
       LET item == line.entry.content[k]
       IN  /\ item.type = "tool_use" /\ item.id = id
           /\ item.name # "Bash" \/ item.input.command \in {"", Undefined}

\* C15: every record returned carries the id and the non-empty command of a
\* Bash tool_use that precedes a result for the id; a tool_use of another
\* tool, or a Bash tool_use with an empty or absent command, yields no
\* record even when a result with its id follows.
OnlyBashCommandsRecorded ==
  Parsed
    => \A k \in 1..Len(ParsedRecords) :
         LET id == ParsedRecords[k].tool_use_id
         IN  /\ RequestThenResult(ParsedText, id)
             /\ ParsedRecords[k].command # ""
             /\ \E i \in 1..Len(ParsedText) :
                  /\ IsRequest(ParsedText[i], id)
                  /\ ParsedText[i].entry.content[1].input.command
                       = ParsedRecords[k].command
OnlyBashCommandsRecordedWitness ==
  /\ Parsed
  /\ ~call.value.threw
  /\ ParsedRecords = <<>>
  /\ \E i, j \in 1..Len(ParsedText) :
       /\ i < j /\ Unregistered(ParsedText[i], "t1") /\ ParsedText[i].entry.content[1].name # "Bash"
       /\ IsResult(ParsedText[j], "t1")
  /\ \E i, j \in 1..Len(ParsedText) :
       /\ i < j /\ Unregistered(ParsedText[i], "t2") /\ IsResult(ParsedText[j], "t2")

\* the text holds results and requests for the id, every result before every
\* request
ResultsBeforeRequests(lines, id) ==
  LET requests == {i \in 1..Len(lines) : IsRequest(lines[i], id)}
      results  == {j \in 1..Len(lines) : IsResult(lines[j], id)}
  IN  /\ requests # {} /\ results # {}
      /\ \A i \in requests, j \in results : j < i

\* C16: matching follows the order of the input: a record for an id is
\* returned only when the text holds a request for the id before a result
\* for it; when the results for an id all come before its requests, no
\* record has the id and the request is still pending when the call ends,
\* where it is dropped.
MatchingSequential ==
  (Parsed /\ ~call.value.threw)
    => \A id \in Ids :
         /\ RecordsOf(ParsedRecords, id) # {} => RequestThenResult(ParsedText, id)
         /\ ResultsBeforeRequests(ParsedText, id)
              => /\ RecordsOf(ParsedRecords, id) = {}
                 /\ id \in DOMAIN call.left
MatchingSequentialWitness ==
  /\ Parsed
  /\ ~call.value.threw
  /\ ResultsBeforeRequests(ParsedText, "t1")
  /\ RecordsOf(ParsedRecords, "t1") = {}
  /\ RecordsOf(ParsedRecords, "t2") # {}
  /\ "t1" \in DOMAIN call.left

\* the lines of the text that register the id: pendingToolUses.set is called
\* once for each
Registrations(lines, id) == {i \in 1..Len(lines) : IsRequest(lines[i], id)}
\* line j holds a result for the id, an earlier line holds one too, and no
\* line between the two registers the id again
FurtherResult(lines, j, id) ==
  /\ IsResult(lines[j], id)
  /\ \E i \in 1..(j - 1) :
       /\ IsResult(lines[i], id)
       /\ \A k \in (i + 1)..(j - 1) : ~IsRequest(lines[k], id)

\* C32: within one parse a pending request is consumed by the first
\* tool_result that matches it: the call returns what it returns on the
\* text without a further tool_result of the same id, and the records
\* returned for an id are never more than the lines that register the id.
ConsumedByFirstResult ==
  Parsed
    => \A id \in Ids :
         /\ Cardinality(RecordsOf(ParsedRecords, id))
              <= Cardinality(Registrations(ParsedText, id))
         /\ \A j \in 1..Len(ParsedText) :
              FurtherResult(ParsedText, j, id)
                => parseJsonlContent(Without(ParsedText, j), call.args[2]) = call.value
ConsumedByFirstResultWitness ==
  /\ Parsed
  /\ ~call.value.threw
  /\ Len(ParsedText) > 2
  /\ IsRequest(ParsedText[1], "t1")
  /\ IsResult(ParsedText[2], "t1")
  /\ FurtherResult(ParsedText, 3, "t1")
  /\ Cardinality(RecordsOf(ParsedRecords, "t1")) = 1

(***************************************************************************)
(* The scorer (frecency.ts).  Times are whole seconds where the source has *)
(* milliseconds: every constant and every instant is the source's divided  *)
(* by 1000.  A number that may be NaN is <<n>> or, for NaN, <<>>.  A score *)
(* is a whole number of 1/Scale.                                           *)
(***************************************************************************)
FOUR_HOURS == 4 * 60 * 60
ONE_DAY == 24 * 60 * 60
ONE_WEEK == 7 * ONE_DAY
ONE_MONTH == 30 * ONE_DAY

NaN == <<>>
\* a < b on numbers: false when either is NaN
Less(a, b) == a # NaN /\ b # NaN /\ a[1] < b[1]
\* a - b on numbers
Minus(a, b) == IF a = NaN \/ b = NaN THEN NaN ELSE <<a[1] - b[1]>>

\* the timestamp argument: null, the empty string, a string that is no
\* date, or the ISO string of an instant
NullTimestamp == [kind |-> "null", ms |-> 0]
EmptyTimestamp == [kind |-> "empty", ms |-> 0]
InvalidTimestamp == [kind |-> "text", ms |-> 0]
toISOString(instant) == [kind |-> "iso", ms |-> instant]
\* new Date(timestamp).getTime()
getTime(timestamp) == IF timestamp.kind = "iso" THEN <<timestamp.ms>> ELSE NaN

\* mutant: a bucket includes its upper boundary
calculateRecencyWeightInclusive(timestamp, now) ==
  IF timestamp.kind \in {"null", "empty"} THEN 10
  ELSE LET age == Minus(<<now>>, getTime(timestamp))
       IN  IF Less(age, <<FOUR_HOURS + 1>>) THEN 100
           ELSE IF Less(age, <<ONE_DAY + 1>>) THEN 70
           ELSE IF Less(age, <<ONE_WEEK + 1>>) THEN 50
           ELSE IF Less(age, <<ONE_MONTH + 1>>) THEN 30
           ELSE 10

\* calculateRecencyWeight, with the value Date.now() returns
calculateRecencyWeight(timestamp, now) ==
  IF timestamp.kind \in {"null", "empty"} THEN 10
  ELSE LET then == getTime(timestamp)
           age  == Minus(<<now>>, then)
       IN  IF Less(age, <<FOUR_HOURS>>) THEN 100
           ELSE IF Less(age, <<ONE_DAY>>) THEN 70
           ELSE IF Less(age, <<ONE_WEEK>>) THEN 50
           ELSE IF Less(age, <<ONE_MONTH>>) THEN 30
           ELSE 10

\* Math.max on integers
Max(a, b) == IF a >= b THEN a ELSE b
\* scores and logarithms are kept as whole multiples of 1/Scale
Scale == 100000
\* Math.log10 of the frequencies the model has, to five decimals
Log10(n) ==
  CASE n = 1   -> 0
    [] n = 2   -> 30103
    [] n = 3   -> 47712
    [] n = 4   -> 60206
    [] n = 5   -> 69897
    [] n = 10  -> Scale
    [] n = 100 -> 2 * Scale

\* mutant: the frequency multiplies the weight as it is
calculateFrecencyScoreLinear(frequency, mostRecent, now) ==
  frequency * Scale * calculateRecencyWeight(mostRecent, now)

calculateFrecencyScore(frequency, mostRecent, now) ==
  LET frequencyWeight == Scale + Log10(Max(1, frequency))
      recencyWeight   == calculateRecencyWeight(mostRecent, now)
  IN  frequencyWeight * recencyWeight

\* the values of Date.now(): 2024-01-01T00:00:00Z and a day later
Nows == {1704067200, 1704067200 + ONE_DAY}
\* the ages of the timestamps: around every bucket boundary, and the ages
\* the tests use
Ages ==
  {b + d : b \in {0, FOUR_HOURS, ONE_DAY, ONE_WEEK, ONE_MONTH},
           d \in (0 - MaxSkew)..MaxSkew}
    \cup {60 * 60, 12 * 60 * 60, 2 * ONE_DAY, 10 * ONE_DAY, 35 * ONE_DAY, 90 * ONE_DAY}
Timestamps(now) ==
  {NullTimestamp, EmptyTimestamp, InvalidTimestamp}
    \cup {toISOString(now - age) : age \in Ages}
\* frequencies: none and negative ones, one and more, and powers of ten
Frequencies == ((0 - MaxBelow)..3) \cup {10, 100}

RecencyCall(timestamp, now) ==
  /\ call' = [fn    |-> "calculateRecencyWeight",
              args  |-> <<timestamp, now>>,
              value |-> calculateRecencyWeight(timestamp, now),
              left  |-> EmptyMap,
              found |-> EmptyMap]
  /\ UNCHANGED <<fsVars, commands, indexed, res, writes>>

FrecencyCall(frequency, mostRecent, now) ==
  /\ call' = [fn    |-> "calculateFrecencyScore",
              args  |-> <<mostRecent, now, frequency>>,
              value |-> calculateFrecencyScore(frequency, mostRecent, now),
              left  |-> EmptyMap,
              found |-> EmptyMap]
  /\ UNCHANGED <<fsVars, commands, indexed, res, writes>>

NextScore ==
  \/ \E now \in Nows : \E timestamp \in Timestamps(now) : RecencyCall(timestamp, now)
  \/ \E now \in Nows : \E timestamp \in Timestamps(now) :
       \E frequency \in Frequencies : FrecencyCall(frequency, timestamp, now)

SpecScore == Init /\ [][NextScore]_vars

\* the age of the timestamp of a scorer call, when the timestamp is a date
HasAge(c) ==
  c.fn \in {"calculateRecencyWeight", "calculateFrecencyScore"} /\ c.args[1].kind = "iso"
AgeOf(c) == c.args[2] - c.args[1].ms

\* C17: calculateRecencyWeight returns 10 for an absent timestamp, 100 for an
\* age under 4 hours, 70 from 4 hours to under a day, 50 from a day to under
\* 7 days, 30 from 7 days to under 30 days and 10 from 30 days on; of two
\* calls in a row the one with the greater age never returns the greater
\* weight.
RecencyBuckets ==
  [][call'.fn = "calculateRecencyWeight"
       => /\ call'.args[1].kind = "null" => call'.value = 10
          /\ HasAge(call')
               => LET age == AgeOf(call')
                  IN  /\ age < FOUR_HOURS => call'.value = 100
                      /\ (FOUR_HOURS <= age /\ age < ONE_DAY) => call'.value = 70
                      /\ (ONE_DAY <= age /\ age < ONE_WEEK) => call'.value = 50
                      /\ (ONE_WEEK <= age /\ age < ONE_MONTH) => call'.value = 30
                      /\ ONE_MONTH <= age => call'.value = 10
          /\ (/\ call.fn = "calculateRecencyWeight"
              /\ HasAge(call) /\ HasAge(call')
              /\ AgeOf(call) <= AgeOf(call'))
               => call'.value <= call.value]_vars
RecencyBucketsWitness ==
  /\ call.fn = "calculateRecencyWeight"
  /\ HasAge(call)
  /\ AgeOf(call) = FOUR_HOURS
  /\ call.value = 70

\* C18: calculateFrecencyScore floors the frequency at 1: called with a
\* frequency of 1 or less (0 and negative values too) it returns what it
\* returns for frequency 1 and the same timestamp, which is the recency
\* weight of the timestamp (Scale times it, in the unit of the scores).
FrequencyFloored ==
  (call.fn = "calculateFrecencyScore" /\ call.args[3] <= 1)
    => /\ call.value = calculateFrecencyScore(1, call.args[1], call.args[2])
       /\ call.value = Scale * calculateRecencyWeight(call.args[1], call.args[2])
FrequencyFlooredWitness ==
  /\ call.fn = "calculateFrecencyScore"
  /\ call.args[3] < 0
  /\ HasAge(call)
  /\ call.value = 70 * Scale

(***************************************************************************)
(* The plain queries (db.ts): searchCommands without useRegex, and         *)
(* listCommands.  A string is matched as the sequence of its characters.   *)
(***************************************************************************)
\* the characters of the strings the model searches in and for
Characters(s) ==
  CASE s = ""    -> <<>>
    [] s = "l"   -> <<"l">>
    [] s = "x"   -> <<"x">>
    [] s = "%"   -> <<"%">>
    [] s = "ls"  -> <<"l", "s">>
    [] s = "LS"  -> <<"L", "S">>
    [] s = "l_"  -> <<"l", "_">>
    [] s = "pwd" -> <<"p", "w", "d">>
    [] s = "echo" -> <<"e", "c", "h", "o">>
    [] s = "("   -> <<"(">>
    [] s = "l."  -> <<"l", ".">>
\* the lower case of an ASCII letter
Lower(c) ==
  CASE c = "L" -> "l"
    [] c = "S" -> "s"
    [] OTHER   -> c

\* text LIKE pattern in SQLite: % is any run of characters, _ any one
\* character, a letter matches in either case
RECURSIVE Like(_, _)
Like(pattern, text) ==
  IF pattern = <<>> THEN text = <<>>
  ELSE IF Head(pattern) = "%"
  THEN Like(Tail(pattern), text) \/ (text # <<>> /\ Like(pattern, Tail(text)))
  ELSE /\ text # <<>>
       /\ Head(pattern) = "_" \/ Lower(Head(pattern)) = Lower(Head(text))
       /\ Like(Tail(pattern), Tail(text))

\* the place of a timestamp in the order of the column: NULL first, then the
\* texts in byte order
TimestampOrder(timestamp) ==
  CASE timestamp = Null                   -> 0
    [] timestamp = "2024-01-01T00:00:00Z" -> 1
    [] timestamp = "2024-01-02T00:00:00Z" -> 2

\* the orders in which the elements of a set can be listed
Orderings(S) ==
  {p \in [1..Cardinality(S) -> S] : \A a, b \in 1..Cardinality(S) : p[a] = p[b] => a = b}

\* mutant: the selected rows come in rowid order
OrderByRowid(rows, selected) ==
  {p \in Orderings(selected) : \A a, b \in DOMAIN p : a < b => p[a] < p[b]}

\* ORDER BY timestamp DESC: the orders of the selected rows SQLite may
\* return them in (rows with equal timestamps in any order)
OrderByTimestampDesc(rows, selected) ==
  {p \in Orderings(selected) :
     \A a, b \in DOMAIN p :
       a < b => TimestampOrder(rows[p[a]].timestamp) >= TimestampOrder(rows[p[b]].timestamp)}

\* the rows at the listed places
RowsAt(rows, p) == [k \in DOMAIN p |-> rows[p[k]]]

\* the results searchCommands(pattern, false, cwd) may return
searchCommands(pattern, cwd, rows) ==
  LET like == <<"%">> \o Characters(pattern) \o <<"%">>
      selected == {i \in 1..Len(rows) :
                     /\ Like(like, Characters(rows[i].command))
                     /\ Truthy(cwd) => rows[i].cwd = cwd}
  IN  {RowsAt(rows, p) : p \in OrderByTimestampDesc(rows, selected)}

\* LIMIT ?: a negative limit is no limit
Limit(result, limit) ==
  IF limit < 0 \/ limit >= Len(result) THEN result ELSE SubSeq(result, 1, limit)

\* the results listCommands(limit, cwd) may return
listCommands(limit, cwd, rows) ==
  LET selected == {i \in 1..Len(rows) : Truthy(cwd) => rows[i].cwd = cwd}
  IN  {Limit(RowsAt(rows, p), limit) : p \in OrderByTimestampDesc(rows, selected)}

\* the commands the table is filled with, as the tests of db.ts fill it
QueryCommand(id, command, cwd, timestamp) ==
  [tool_use_id |-> id, command |-> command, description |-> Null, cwd |-> cwd,
   stdout |-> Null, stderr |-> Null, is_error |-> 0, timestamp |-> timestamp,
   session_id |-> "s1"]
QueryCommands ==
  {QueryCommand("tool_1", "ls", "/a", "2024-01-01T00:00:00Z"),
   QueryCommand("tool_2", "LS", "/b", "2024-01-02T00:00:00Z"),
   QueryCommand("tool_3", "pwd", "/a", "2024-01-02T00:00:00Z"),
   QueryCommand("tool_4", "ls", Null, Null)}
Patterns == {"", "l", "x", "%", "LS", "l_"}
CwdFilters == {Undefined, "", "/a"}
Limits == (0 - 1)..MaxLimit

InsertRow(cmd) ==
  /\ Len(commands) < MaxRows
  /\ commands' = insertCommand(commands, cmd).rows
  /\ res' = Result("insert", FALSE)
  /\ UNCHANGED <<fsVars, indexed, writes, call>>

SearchCommandsCall(pattern, cwd) ==
  /\ \E result \in searchCommands(pattern, cwd, commands) :
       call' = [fn    |-> "searchCommands",
                args  |-> <<pattern, cwd>>,
                value |-> result,
                left  |-> EmptyMap,
                found |-> EmptyMap]
  /\ res' = Result("searchCommands", FALSE)
  /\ UNCHANGED <<fsVars, commands, indexed, writes>>

ListCommandsCall(limit, cwd) ==
  /\ \E result \in listCommands(limit, cwd, commands) :
       call' = [fn    |-> "listCommands",
                args  |-> <<limit, cwd>>,
                value |-> result,
                left  |-> EmptyMap,
                found |-> EmptyMap]
  /\ res' = Result("listCommands", FALSE)
  /\ UNCHANGED <<fsVars, commands, indexed, writes>>

NextQuery ==
  \/ \E cmd \in QueryCommands : InsertRow(cmd)
  \/ \E pattern \in Patterns, cwd \in CwdFilters : SearchCommandsCall(pattern, cwd)
  \/ \E limit \in Limits, cwd \in CwdFilters : ListCommandsCall(limit, cwd)

SpecQuery == Init /\ [][NextQuery]_vars

\* the text holds the pattern as a substring, the case of letters aside
Contains(text, pattern) ==
  \E i \in 0..(Len(text) - Len(pattern)) :
    \A k \in 1..Len(pattern) : Lower(text[i + k]) = Lower(pattern[k])
\* the rowids of a result
RowIds(result) == {result[k].id : k \in 1..Len(result)}
\* the stored rows a cwd filter lets through
CwdSelected(cwd) ==
  {i \in 1..Len(commands) : Truthy(cwd) => commands[i].cwd = cwd}

\* C19 as stated: searchCommands without useRegex returns exactly the stored
\* rows whose command holds the pattern as a case-insensitive substring and,
\* with a cwd filter, whose cwd equals it, for every pattern.
SubstringSearchExact ==
  res.op = "searchCommands"
    => RowIds(call.value)
         = {commands[i].id : i \in
              {j \in CwdSelected(call.args[2]) :
                 Contains(Characters(commands[j].command), Characters(call.args[1]))}}

\* the rows of a result come with timestamps in descending order, the rows
\* without a timestamp last
Descending(result) ==
  \A a, b \in 1..Len(result) :
    a < b => TimestampOrder(result[a].timestamp) >= TimestampOrder(result[b].timestamp)

\* C20: searchCommands without useRegex and listCommands return their rows
\* ordered by timestamp descending; listCommands with a limit of 0 or more
\* returns the stored rows the cwd filter lets through, or limit of them
\* when there are more, each once, and no row left out has a later
\* timestamp than a row returned.
NewestFirst ==
  res.op \in {"searchCommands", "listCommands"}
    => /\ Descending(call.value)
       /\ (res.op = "listCommands" /\ call.args[1] >= 0)
            => LET limit  == call.args[1]
                   stored == CwdSelected(call.args[2])
               IN  /\ Len(call.value) <= limit
                   /\ Len(call.value) = Cardinality(RowIds(call.value))
                   /\ Len(call.value)
                        = IF limit < Cardinality(stored) THEN limit ELSE Cardinality(stored)
                   /\ \A k \in 1..Len(call.value) :
                        \E i \in stored : commands[i] = call.value[k]
                   /\ \A i \in stored :
                        commands[i].id \notin RowIds(call.value)
                          => \A k \in 1..Len(call.value) :
                               TimestampOrder(call.value[k].timestamp)
                                 >= TimestampOrder(commands[i].timestamp)
NewestFirstWitness ==
  /\ res.op = "listCommands"
  /\ Len(commands) > Len(call.value)
  /\ Len(call.value) = call.args[1]
  /\ Len(call.value) > 1
  /\ call.value[1].id > call.value[2].id
  /\ call.value[1].timestamp # call.value[2].timestamp

\* C28: no call of the tool (sync, force sync, search, list, with or without
\* auto-sync) writes to, truncates or deletes a session log file: a step
\* that is not a write of the environment leaves the projects directory,
\* every file's lines, modification time and readability as they were.
LogsOnlyRead ==
  [][res'.op # "write"
       => /\ rootExists' = rootExists
          /\ content' = content
          /\ open' = open
          /\ mtime' = mtime
          /\ fault' = fault]_vars
LogsOnlyReadWitness ==
  /\ res.op = "sync"
  /\ res.force
  /\ res.newCommands > 0
  /\ \E f \in Files : HasIndexedFile(indexed, f) /\ Len(content[f]) >= 2

(***************************************************************************)
(* Where a resumed file is read from.                                      *)
(***************************************************************************)
\* the byte at which line i (counted from 0) of the split text starts
LineStart(lines, i) == SumBytes(SubSeq(lines, 1, i))
\* a non-force sync reads f from its checkpoint
Resumed(f) ==
  /\ rootExists
  /\ fault[f] = "none"
  /\ HasIndexedFile(indexed, f)
  /\ indexed[f].last_byte_offset > 0
  /\ ~Skipped(f, FALSE)
\* the line indexFile starts at, counted from 0
ResumeLine(f) ==
  indexFile(ReadLines(f), indexed[f].last_byte_offset, SessionId(f), commands).startLine
\* the checkpoint of f is the first byte of a line
AtLineStart(f) ==
  \E i \in 0..Len(ReadLines(f).lines) :
    LineStart(ReadLines(f).lines, i) = indexed[f].last_byte_offset

\* C29 as stated: a file resumed from a checkpoint is parsed from the first
\* line boundary at or after the checkpoint, no line that starts before the
\* checkpoint is parsed.
ResumesAtOrAfterOffset ==
  \A f \in Files :
    Resumed(f) =>
      LineStart(ReadLines(f).lines, ResumeLine(f)) >= indexed[f].last_byte_offset

\* C29: a file resumed from a checkpoint greater than 0 is parsed from the
\* start of the line that holds the byte at the checkpoint, lines counted in
\* bytes plus one for the newline: no line that ends before the checkpoint is
\* parsed, and when the checkpoint is the first byte of a line the parsed text
\* starts exactly there.
ResumesAtLineOfOffset ==
  \A f \in Files :
    Resumed(f) =>
      LET lines == ReadLines(f).lines
          offset == indexed[f].last_byte_offset
          startLine == ResumeLine(f)
      IN  /\ startLine < Len(lines)
          /\ LineStart(lines, startLine) <= offset
          /\ offset < LineStart(lines, startLine) + lines[startLine + 1].bytes + 1
          /\ AtLineStart(f) => LineStart(lines, startLine) = offset
ResumesAtLineOfOffsetWitness ==
  \E f \in Files :
    /\ Resumed(f)
    /\ ~AtLineStart(f)
    /\ LineStart(ReadLines(f).lines, ResumeLine(f)) < indexed[f].last_byte_offset

(***************************************************************************)
(* The frecency queries (db.ts): the commands grouped by their text, each  *)
(* group scored and the groups sorted by score.  now is what Date.now()    *)
(* returns while the groups are scored.                                    *)
(***************************************************************************)
\* the timestamp column as the argument of calculateFrecencyScore
TimestampOf(timestamp) ==
  CASE timestamp = Null                   -> NullTimestamp
    [] timestamp = "2024-01-01T00:00:00Z" -> toISOString(1704067200)
    [] timestamp = "2024-01-02T00:00:00Z" -> toISOString(1704067200 + ONE_DAY)

\* MAX(timestamp) over the rows of a group: NULL only when every one is NULL
MaxTimestamp(rows, group) ==
  CHOOSE t \in {rows[i].timestamp : i \in group} :
    \A i \in group : TimestampOrder(t) >= TimestampOrder(rows[i].timestamp)

\* (SELECT ... FROM commands c2 WHERE c2.command = c1.command ORDER BY
\* timestamp DESC LIMIT 1): the rows the subqueries may take, of all the
\* rows of the table with the command
NewestOf(rows, command) ==
  {i \in 1..Len(rows) :
     /\ rows[i].command = command
     /\ \A j \in 1..Len(rows) :
          rows[j].command = command
            => TimestampOrder(rows[i].timestamp) >= TimestampOrder(rows[j].timestamp)}

\* one row of GROUP BY command with its score; pick is the row the
\* subqueries took
GroupRow(rows, group, command, pick, now) ==
  LET frequency == Cardinality(group)
      most_recent == MaxTimestamp(rows, group)
  IN  [id |-> rows[pick].id, tool_use_id |-> rows[pick].tool_use_id,
       command |-> command, description |-> rows[pick].description,
       cwd |-> rows[pick].cwd, stdout |-> rows[pick].stdout,
       stderr |-> rows[pick].stderr, is_error |-> rows[pick].is_error,
       timestamp |-> most_recent, session_id |-> rows[pick].session_id,
       frequency |-> frequency,
       frecency_score |-> calculateFrecencyScore(frequency, TimestampOf(most_recent), now)]

\* the rows of the selected commands with the command
GroupOf(rows, selected, command) == {i \in selected : rows[i].command = command}

\* the sets of scored groups the grouping query may give for the selected rows
GroupRows(rows, selected, now) ==
  LET texts == {rows[i].command : i \in selected}
      picks == {pick \in [texts -> 1..Len(rows)] :
                  \A c \in texts : pick[c] \in NewestOf(rows, c)}
  IN  {{GroupRow(rows, GroupOf(rows, selected, c), c, pick[c], now) : c \in texts} :
         pick \in picks}

\* mutant: the groups are returned as the query gave them
Unsorted(results) == Orderings(results)

\* results.sort((a, b) => b.frecency_score - a.frecency_score): groups with
\* equal scores keep the order the query gave them in, which is any
SortByScore(results) ==
  {p \in Orderings(results) :
     \A a, b \in DOMAIN p : a < b => p[a].frecency_score >= p[b].frecency_score}

\* result.slice(0, end): a negative end counts from the end of the array
Slice(result, end) ==
  LET to == IF end < 0 THEN Max(Len(result) + end, 0)
            ELSE IF end > Len(result) THEN Len(result) ELSE end
  IN  SubSeq(result, 1, to)

\* the results listCommandsWithFrecency(limit, cwd) may return
listCommandsWithFrecency(limit, cwd, rows, now) ==
  LET selected == {i \in 1..Len(rows) : Truthy(cwd) => rows[i].cwd = cwd}
  IN  {Slice(sorted, limit) :
         sorted \in UNION {SortByScore(results) : results \in GroupRows(rows, selected, now)}}

\* the results searchCommandsWithFrecencyLike(pattern, cwd) may return
searchCommandsWithFrecencyLike(pattern, cwd, rows, now) ==
  LET likePattern == <<"%">> \o Characters(pattern) \o <<"%">>
      selected == {i \in 1..Len(rows) :
                     /\ Like(likePattern, Characters(rows[i].command))
                     /\ Truthy(cwd) => rows[i].cwd = cwd}
  IN  UNION {SortByScore(results) : results \in GroupRows(rows, selected, now)}

(***************************************************************************)
(* The frecency search over the full-text index (FTS5), blended with the   *)
(* relevance -bm25.  bm25[i] is the relevance the index gives row i; a     *)
(* command is one token of the index and no row has a description.         *)
(***************************************************************************)
\* pattern.replace(/['"]/g, "").split(/\s+/).filter(Boolean): the terms of
\* the pattern, each a sequence of characters
RECURSIVE SplitTerms(_, _)
SplitTerms(chars, term) ==
  IF chars = <<>> THEN (IF term = <<>> THEN <<>> ELSE <<term>>)
  ELSE IF Head(chars) = " "
  THEN (IF term = <<>> THEN <<>> ELSE <<term>>) \o SplitTerms(Tail(chars), <<>>)
  ELSE IF Head(chars) \in {"'", "\""}
  THEN SplitTerms(Tail(chars), term)
  ELSE SplitTerms(Tail(chars), Append(term, Head(chars)))
FtsTerms(pattern) == SplitTerms(Characters(pattern), <<>>)

\* commands_fts MATCH '"term"* ...': every term begins the token of the
\* command, the case of letters aside
FtsMatch(terms, command) ==
  \A t \in 1..Len(terms) :
    /\ Len(terms[t]) <= Len(command)
    /\ \A k \in 1..Len(terms[t]) : Lower(terms[t][k]) = Lower(command[k])

\* the best relevance among the matches with a command (commandBm25Map)
BestBm25(rows, matches, bm25, command) ==
  CHOOSE r \in {bm25[i] : i \in GroupOf(rows, matches, command)} :
    \A i \in GroupOf(rows, matches, command) : r >= bm25[i]

\* maxBm25 - minBm25 || 1
Bm25Range(scores) ==
  LET maxBm25 == CHOOSE m \in scores : \A x \in scores : m >= x
      minBm25 == CHOOSE m \in scores : \A x \in scores : m <= x
  IN  IF maxBm25 - minBm25 = 0 THEN 1 ELSE maxBm25 - minBm25

\* mutant: the normalised relevance is the multiplier as it is
BlendUnshifted(frecencyScore, above, bm25Range) ==
  (frecencyScore * above) \div bm25Range

\* frecencyScore * (0.5 + normalizedBm25), where normalizedBm25 is
\* above / bm25Range
Blend(frecencyScore, above, bm25Range) ==
  (frecencyScore * (bm25Range + 2 * above)) \div (2 * bm25Range)

\* the results searchCommandsWithFrecencyFts(pattern, cwd) may return
searchCommandsWithFrecencyFts(pattern, cwd, rows, now, bm25) ==
  LET ftsPattern == FtsTerms(pattern)
      matches == {i \in 1..Len(rows) :
                    /\ FtsMatch(ftsPattern, Characters(rows[i].command))
                    /\ Truthy(cwd) => rows[i].cwd = cwd}
      uniqueCommands == {rows[i].command : i \in matches}
      selected == {i \in 1..Len(rows) : rows[i].command \in uniqueCommands}
      bm25Scores == {BestBm25(rows, matches, bm25, c) : c \in uniqueCommands}
      minBm25 == CHOOSE m \in bm25Scores : \A x \in bm25Scores : m <= x
      Combined(row) ==
        [row EXCEPT !.frecency_score =
           Blend(@, BestBm25(rows, matches, bm25, row.command) - minBm25,
                 Bm25Range(bm25Scores))]
  IN  IF ftsPattern = <<>> \/ matches = {} THEN {<<>>}
      ELSE UNION {SortByScore({Combined(row) : row \in rawResults}) :
                    rawResults \in GroupRows(rows, selected, now)}

\* the executions the table is filled with: a command run in two
\* directories and once without a timestamp, the same in capitals, another
\* command
FrecencyCommands ==
  {QueryCommand("tool_1", "ls", "/a", "2024-01-01T00:00:00Z"),
   QueryCommand("tool_2", "ls", "/b", "2024-01-02T00:00:00Z"),
   QueryCommand("tool_3", "pwd", "/a", "2024-01-02T00:00:00Z"),
   QueryCommand("tool_4", "ls", "/a", Null),
   QueryCommand("tool_5", "LS", "/a", "2024-01-01T00:00:00Z")}
\* the values of Date.now(): 2024-01-02T00:00:00Z and 2024-01-08T00:00:00Z
FrecencyNows == {1704067200 + ONE_DAY, 1704067200 + ONE_WEEK}
FrecencyPatterns == {"", "l", "x"}
FrecencyCwds == {Undefined, "/a"}

\* a row inserted before the query is made
FillRow(cmd) ==
  /\ call.fn = "none"
  /\ InsertRow(cmd)

\* the one query made on the table
SearchFrecencyCall(pattern, cwd, now) ==
  /\ call.fn = "none"
  /\ \E result \in searchCommandsWithFrecencyLike(pattern, cwd, commands, now) :
       call' = [fn    |-> "searchCommandsWithFrecency",
                args  |-> <<pattern, cwd, now>>,
                value |-> result,
                left  |-> EmptyMap,
                found |-> EmptyMap]
  /\ res' = Result("searchCommandsWithFrecency", FALSE)
  /\ UNCHANGED <<fsVars, commands, indexed, writes>>

ListFrecencyCall(limit, cwd, now) ==
  /\ call.fn = "none"
  /\ \E result \in listCommandsWithFrecency(limit, cwd, commands, now) :
       call' = [fn    |-> "listCommandsWithFrecency",
                args  |-> <<limit, cwd, now>>,
                value |-> result,
                left  |-> EmptyMap,
                found |-> EmptyMap]
  /\ res' = Result("listCommandsWithFrecency", FALSE)
  /\ UNCHANGED <<fsVars, commands, indexed, writes>>

\* the table is filled, then one query is made
\* the query of the version that searches the full-text index
SearchFtsCall(pattern, cwd, now, bm25) ==
  /\ call.fn = "none"
  /\ \E result \in searchCommandsWithFrecencyFts(pattern, cwd, commands, now, bm25) :
       call' = [fn    |-> "searchCommandsWithFrecencyFts",
                args  |-> <<pattern, cwd, now, bm25>>,
                value |-> result,
                left  |-> EmptyMap,
                found |-> EmptyMap]
  /\ res' = Result("searchCommandsWithFrecencyFts", FALSE)
  /\ UNCHANGED <<fsVars, commands, indexed, writes>>

FtsPatterns == {"", "l"}
\* the value of Date.now(): 2024-01-02T00:00:00Z
FtsNows == {1704067200 + ONE_DAY}
Relevances == 1..MaxRelevance

NextFts ==
  \/ \E cmd \in FrecencyCommands : FillRow(cmd)
  \/ \E pattern \in FtsPatterns, cwd \in FrecencyCwds, now \in FtsNows :
       \E bm25 \in [1..Len(commands) -> Relevances] :
         SearchFtsCall(pattern, cwd, now, bm25)

SpecFts == Init /\ [][NextFts]_vars

NextFrecency ==
  \/ \E cmd \in FrecencyCommands : FillRow(cmd)
  \/ \E pattern \in FrecencyPatterns, cwd \in FrecencyCwds, now \in FrecencyNows :
       SearchFrecencyCall(pattern, cwd, now)
  \/ \E limit \in Limits, cwd \in FrecencyCwds, now \in FrecencyNows :
       ListFrecencyCall(limit, cwd, now)

SpecFrecency == Init /\ [][NextFrecency]_vars

\* the stored rows a frecency call selects from: those the cwd filter and,
\* in a search, the pattern let through
FrecencyScope ==
  {i \in CwdSelected(call.args[2]) :
     /\ res.op = "searchCommandsWithFrecency"
          => Like(<<"%">> \o Characters(call.args[1]) \o <<"%">>,
                  Characters(commands[i].command))
     /\ res.op = "searchCommandsWithFrecencyFts"
          => FtsMatch(FtsTerms(call.args[1]), Characters(commands[i].command))}
\* the command texts in scope, and the score the scorer gives each
ScopeTexts == {commands[i].command : i \in FrecencyScope}
ScoreOf(command) ==
  LET group == GroupOf(commands, FrecencyScope, command)
  IN  calculateFrecencyScore(Cardinality(group),
                             TimestampOf(MaxTimestamp(commands, group)), call.args[3])
ResultTexts == {call.value[k].command : k \in 1..Len(call.value)}

\* C25: a frecency result is in non-increasing order of score; the frecency
\* list with a limit of 0 or more returns limit groups, or all of them when
\* there are fewer, and no group left out has a higher score than a group
\* returned; the frecency search returns every matching group.
SortedByScore ==
  res.op \in {"searchCommandsWithFrecency", "listCommandsWithFrecency"}
    => /\ \A a, b \in 1..Len(call.value) :
            a < b => call.value[a].frecency_score >= call.value[b].frecency_score
       /\ \A k \in 1..Len(call.value) :
            /\ call.value[k].command \in ScopeTexts
            /\ call.value[k].frecency_score = ScoreOf(call.value[k].command)
       /\ res.op = "searchCommandsWithFrecency"
            => /\ ResultTexts = ScopeTexts
               /\ Len(call.value) = Cardinality(ScopeTexts)
       /\ (res.op = "listCommandsWithFrecency" /\ call.args[1] >= 0)
            => /\ Len(call.value) = IF call.args[1] < Cardinality(ScopeTexts)
                                    THEN call.args[1] ELSE Cardinality(ScopeTexts)
               /\ Cardinality(ResultTexts) = Len(call.value)
               /\ \A c \in ScopeTexts \ ResultTexts :
                    \A k \in 1..Len(call.value) :
                      call.value[k].frecency_score >= ScoreOf(c)
SortedByScoreWitness ==
  /\ res.op = "listCommandsWithFrecency"
  /\ call.args[1] = 1
  /\ Len(call.value) = 1
  /\ Cardinality(ScopeTexts) = 2
  /\ call.value[1].frequency = 1
  /\ \E c \in ScopeTexts \ ResultTexts :
       /\ Cardinality(GroupOf(commands, FrecencyScope, c)) = 2
       /\ ScoreOf(c) < call.value[1].frecency_score

\* the stored rows in scope with the command of a result
ScopeGroup(k) == GroupOf(commands, FrecencyScope, call.value[k].command)

\* C24 as stated: the display fields of each frecency result are those of
\* the most recent execution among the rows in scope: the result is, column
\* by column, a row in scope with the command whose timestamp is the
\* reported one, so with a cwd filter its cwd is the filter.
FieldsOfMostRecentInScope ==
  res.op \in {"searchCommandsWithFrecency", "listCommandsWithFrecency"}
    => \A k \in 1..Len(call.value) :
         /\ Truthy(call.args[2]) => call.value[k].cwd = call.args[2]
         /\ \E i \in ScopeGroup(k) :
              /\ commands[i].timestamp = call.value[k].timestamp
              /\ commands[i].id = call.value[k].id
              /\ commands[i].tool_use_id = call.value[k].tool_use_id
              /\ commands[i].description = call.value[k].description
              /\ commands[i].cwd = call.value[k].cwd
              /\ commands[i].stdout = call.value[k].stdout
              /\ commands[i].stderr = call.value[k].stderr
              /\ commands[i].is_error = call.value[k].is_error
              /\ commands[i].session_id = call.value[k].session_id

\* C23 as stated: in the frecency search (over LIKE and over the full-text
\* index) and list every command text comes at most once in the result, and
\* its frequency is the number of stored rows with exactly that text that
\* the pattern and the cwd filter let through.
FrequencyCountsScope ==
  res.op \in {"searchCommandsWithFrecency", "listCommandsWithFrecency",
              "searchCommandsWithFrecencyFts"}
    => /\ \A a, b \in 1..Len(call.value) :
            call.value[a].command = call.value[b].command => a = b
       /\ \A k \in 1..Len(call.value) :
            /\ call.value[k].frequency = Cardinality(ScopeGroup(k))
            /\ call.value[k].frequency >= 1

(***************************************************************************)
(* The blend of frecency and relevance.                                    *)
(***************************************************************************)
\* the best relevance of the command of result k, the least and the
\* greatest of the best relevances, of the last full-text search
BestOf(k) == BestBm25(commands, FrecencyScope, call.args[4], call.value[k].command)
BestScores ==
  {BestBm25(commands, FrecencyScope, call.args[4], c) : c \in ScopeTexts}
LeastBest == CHOOSE m \in BestScores : \A x \in BestScores : m <= x
GreatestBest == CHOOSE m \in BestScores : \A x \in BestScores : m >= x

EmptyPatternMatchesAll ==
  /\ (res.op = "searchCommands" /\ call.args[1] = "")
       => RowIds(call.value) = {commands[i].id : i \in CwdSelected(call.args[2])}
  /\ (/\ res.op \in {"searchCommandsWithFrecency", "searchCommandsWithFrecencyFts"}
      /\ call.args[1] = "")
       => ResultTexts = {commands[i].command : i \in CwdSelected(call.args[2])}

(***************************************************************************)
(* The searches with useRegex.  A pattern is a sequence of literal         *)
(* characters and dots; an opening parenthesis that is never closed makes  *)
(* new RegExp throw SyntaxError.                                           *)
(***************************************************************************)
\* new RegExp(pattern, "i") returns
RegexValid(pattern) == \A k \in 1..Len(pattern) : pattern[k] # "("

\* regex.test(text): the pattern matches somewhere in the text, a dot any
\* character, a letter in either case
RegexTest(pattern, text) ==
  \E i \in 0..(Len(text) - Len(pattern)) :
    \A k \in 1..Len(pattern) :
      pattern[k] = "." \/ Lower(pattern[k]) = Lower(text[i + k])

\* what searchCommands(pattern, true, cwd) may do: throw, or return rows
searchCommandsRegex(pattern, cwd, rows) ==
  LET regex == Characters(pattern)
      selected == {i \in 1..Len(rows) :
                     /\ RegexTest(regex, Characters(rows[i].command))
                     /\ ~Truthy(cwd) \/ rows[i].cwd = cwd}
  IN  IF ~RegexValid(regex) THEN {[threw |-> TRUE, rows |-> <<>>]}
      ELSE {[threw |-> FALSE, rows |-> RowsAt(rows, p)] :
              p \in OrderByTimestampDesc(rows, selected)}

\* what searchCommandsWithFrecencyRegex(pattern, cwd) may do
searchCommandsWithFrecencyRegex(pattern, cwd, rows, now) ==
  LET regex == Characters(pattern)
      selected == {i \in 1..Len(rows) : Truthy(cwd) => rows[i].cwd = cwd}
      Tested(results) == {row \in results : RegexTest(regex, Characters(row.command))}
  IN  IF ~RegexValid(regex) THEN {[threw |-> TRUE, rows |-> <<>>]}
      ELSE {[threw |-> FALSE, rows |-> sorted] :
              sorted \in UNION {SortByScore(Tested(results)) :
                                  results \in GroupRows(rows, selected, now)}}

RegexPatterns == {"l", "l.", "("}

SearchRegexCall(pattern, cwd) ==
  /\ call.fn = "none"
  /\ \E result \in searchCommandsRegex(pattern, cwd, commands) :
       call' = [fn    |-> "searchCommands",
                args  |-> <<pattern, cwd>>,
                value |-> result,
                left  |-> EmptyMap,
                found |-> EmptyMap]
  /\ res' = Result("searchCommands --regex", FALSE)
  /\ UNCHANGED <<fsVars, commands, indexed, writes>>

SearchFrecencyRegexCall(pattern, cwd, now) ==
  /\ call.fn = "none"
  /\ \E result \in searchCommandsWithFrecencyRegex(pattern, cwd, commands, now) :
       call' = [fn    |-> "searchCommandsWithFrecency",
                args  |-> <<pattern, cwd, now>>,
                value |-> result,
                left  |-> EmptyMap,
                found |-> EmptyMap]
  /\ res' = Result("searchCommandsWithFrecency --regex", FALSE)
  /\ UNCHANGED <<fsVars, commands, indexed, writes>>

NextRegex ==
  \/ \E cmd \in FrecencyCommands : FillRow(cmd)
  \/ \E pattern \in RegexPatterns, cwd \in FrecencyCwds : SearchRegexCall(pattern, cwd)
  \/ \E pattern \in RegexPatterns, cwd \in FrecencyCwds, now \in FrecencyNows :
       SearchFrecencyRegexCall(pattern, cwd, now)

SpecRegex == Init /\ [][NextRegex]_vars

\* C22 as stated: a search with useRegex and a pattern that is no regular
\* expression does not raise: searchCommands and searchCommandsWithFrecency
\* return.
InvalidRegexReturns ==
  res.op \in {"searchCommands --regex", "searchCommandsWithFrecency --regex"}
    => ~call.value.threw

(***************************************************************************)
(* The commands search and list: the auto-sync, then the query on the      *)
(* table the sync has left.  An absent limit is <<>>, a limit n is <<n>>.  *)
(***************************************************************************)
Options(cwd, regex, limit, sort) ==
  [cwd |-> cwd, regex |-> regex, limit |-> limit, sort |-> sort]
DefaultOptions == Options(Undefined, Undefined, <<>>, Undefined)

\* a call that returned result
Returned(result) == [threw |-> FALSE, rows |-> result]

\* search(pattern, options) after its auto-sync: what it throws or lists
search(pattern, options, rows, now) ==
  LET useFrecency == options.sort # "time"
      useRegex == Coalesce(options.regex, FALSE)
      results ==
        IF useFrecency
        THEN IF useRegex
             THEN searchCommandsWithFrecencyRegex(pattern, options.cwd, rows, now)
             ELSE {Returned(r) :
                     r \in searchCommandsWithFrecencyLike(pattern, options.cwd, rows, now)}
        ELSE IF useRegex
             THEN searchCommandsRegex(pattern, options.cwd, rows)
             ELSE {Returned(r) : r \in searchCommands(pattern, options.cwd, rows)}
      Limited(r) ==
        IF options.limit # <<>> /\ options.limit[1] # 0
        THEN Slice(r, options.limit[1]) ELSE r
  IN  {IF r.threw THEN r ELSE Returned(Limited(r.rows)) : r \in results}

\* list(options) after its auto-sync
list(options, rows, now) ==
  LET limit == IF options.limit = <<>> THEN 20 ELSE options.limit[1]
      useFrecency == options.sort # "time"
  IN  IF useFrecency
      THEN {Returned(r) : r \in listCommandsWithFrecency(limit, options.cwd, rows, now)}
      ELSE {Returned(r) : r \in listCommands(limit, options.cwd, rows)}

\* the value of Date.now(): 2024-01-02T00:00:00Z
CommandNows == {1704067200 + ONE_DAY}

\* mutant: search querying the table before its auto-sync
SearchBeforeSync(noSync, pattern, options) ==
  /\ AutoSync(IF noSync THEN "search --no-sync" ELSE "search", noSync)
  /\ \E now \in CommandNows :
       \E result \in search(pattern, options, commands, now) :
         call' = [fn    |-> "search",
                  args  |-> <<pattern, options>>,
                  value |-> result,
                  left  |-> EmptyMap,
                  found |-> EmptyMap]

\* mutant: search giving up when its auto-sync reports an error
SearchAbortsOnErrors(noSync, pattern, options) ==
  /\ AutoSync(IF noSync THEN "search --no-sync" ELSE "search", noSync)
  /\ \E now \in CommandNows :
       \E result \in search(pattern, options, commands', now) :
         call' = [fn    |-> "search",
                  args  |-> <<pattern, options>>,
                  value |-> IF res'.errors # <<>>
                            THEN [threw |-> TRUE, rows |-> <<>>] ELSE result,
                  left  |-> EmptyMap,
                  found |-> EmptyMap]

\* deja search <pattern> [--no-sync] [--regex] [--cwd] [--limit] [--sort]
Search(noSync, pattern, options) ==
  /\ AutoSync(IF noSync THEN "search --no-sync" ELSE "search", noSync)
  /\ \E now \in CommandNows :
       \E result \in search(pattern, options, commands', now) :
         call' = [fn    |-> "search",
                  args  |-> <<pattern, options>>,
                  value |-> result,
                  left  |-> EmptyMap,
                  found |-> EmptyMap]

\* deja list [--no-sync] [--cwd] [--limit] [--sort]
List(noSync, options) ==
  /\ AutoSync(IF noSync THEN "list --no-sync" ELSE "list", noSync)
  /\ \E now \in CommandNows :
       \E result \in list(options, commands', now) :
         call' = [fn    |-> "list",
                  args  |-> <<"", options>>,
                  value |-> result,
                  left  |-> EmptyMap,
                  found |-> EmptyMap]

\* every call of the tool, over session files that whole request/result pairs
\* are appended to and that may be emptied
NextTool ==
  \/ \E force \in BOOLEAN : Sync(force)
  \/ \E noSync \in BOOLEAN : Search(noSync, "", DefaultOptions)
  \/ \E noSync \in BOOLEAN : List(noSync, DefaultOptions)
  \/ \E id \in Ids : InsertCommand(id)
  \/ \E f \in Files, chunk \in PairChunks : AppendLines(f, chunk)
  \/ \E f \in Files : Truncate(f)

SpecTool == Init /\ [][NextTool]_vars

\* C26: with noSync set, search and list do not run the indexer and only
\* read the store: the call scans no file and reports no new command, and
\* the commands table and every checkpoint are after the call what they were
\* before it.
NoSyncReadsOnly ==
  [][res'.op \in {"search --no-sync", "list --no-sync"}
       => /\ commands' = commands
          /\ indexed' = indexed
          /\ res'.filesScanned = 0
          /\ res'.newCommands = 0
          /\ res'.errors = <<>>]_vars
NoSyncReadsOnlyWitness ==
  /\ res.op = "search --no-sync"
  /\ call.fn = "search"
  /\ \E f \in Files :
       /\ fault[f] = "none"
       /\ CompletePairIds(content[f]) # {}
       /\ CompletePairIds(content[f]) \cap StoredIds(commands) = {}
       /\ ~HasIndexedFile(indexed, f) \/ indexed[f].last_byte_offset < FileSize(f)

\* C27: without noSync, search and list run the whole sync before they
\* query: the result of the call has a group for every row of the table as
\* the sync of the same call left it, the rows that sync added included,
\* and the frequency of a group counts those rows.
SyncedBeforeQuery ==
  [][res'.op \in {"search", "list"}
       => /\ call'.fn = res'.op
          /\ ~call'.value.threw
          /\ Len(commands') >= Len(commands)
          /\ \A i \in 1..Len(commands') :
               \E k \in 1..Len(call'.value.rows) :
                 /\ call'.value.rows[k].command = commands'[i].command
                 /\ call'.value.rows[k].frequency
                      = Cardinality(GroupOf(commands', 1..Len(commands'),
                                            commands'[i].command))]_vars
SyncedBeforeQueryWitness ==
  /\ res.op = "search"
  /\ res.newCommands = 2
  /\ call.fn = "search"
  /\ Len(call.value.rows) = 2
  /\ Len(commands) = 2

(***************************************************************************)
(* Session files that are rewritten: the environment replaces the content  *)
(* of a file by other lines of no more bytes.                              *)
(***************************************************************************)
\* the file is rewritten in place, or truncated and refilled, with lines
\* that take no more bytes than it had
Rewrite(f, lines) ==
  /\ ~open[f]
  /\ lines # content[f]
  /\ SumBytes(lines) <= FileSize(f)
  /\ Written(f)
  /\ content' = [content EXCEPT ![f] = lines]
  /\ UNCHANGED open

NextRewrite ==
  \/ \E force \in BOOLEAN : Sync(force)
  \/ \E f \in Files, chunk \in WellFormedChunks : AppendLines(f, chunk)
  \/ \E f \in Files, chunk \in WellFormedChunks : Rewrite(f, chunk)
  \/ \E f \in Files : Truncate(f)

SpecRewrite == Init /\ [][NextRewrite]_vars

\* C33: a non-force sync skips a file exactly when the file has a checkpoint
\* whose offset is at least the file's size, whatever the file's content and
\* modification time are: a skipped file keeps its checkpoint, stored
\* modification time included, a sync that skips every file leaves the
\* commands table as it is and reports no new command, and a file that is
\* not skipped and is processed without an exception gets the checkpoint of
\* its size and modification time.
SkipDecidedBySize ==
  [][(res'.op = "sync" /\ ~res'.force /\ rootExists)
       => /\ \A f \in JsonlFiles :
               /\ (fault[f] # "stat" /\ Skipped(f, FALSE))
                    => CheckpointOf(indexed', f) = CheckpointOf(indexed, f)
               /\ Completes(f, FALSE)
                    => CheckpointOf(indexed', f) =
                         <<[last_byte_offset |-> FileSize(f),
                            last_modified |-> mtime[f]]>>
          /\ (\A f \in JsonlFiles : fault[f] # "stat" /\ Skipped(f, FALSE))
               => /\ commands' = commands
                  /\ res'.newCommands = 0
                  /\ res'.errors = <<>>]_vars
\* a non-force sync has skipped a file that was rewritten since its
\* checkpoint: its modification time is not the stored one and it holds a
\* complete pair that is not in the store
SkipDecidedBySizeWitness ==
  /\ res.op = "sync" /\ ~res.force /\ res.errors = <<>>
  /\ \E f \in JsonlFiles :
       /\ HasIndexedFile(indexed, f)
       /\ indexed[f].last_byte_offset >= FileSize(f)
       /\ indexed[f].last_modified # mtime[f]
       /\ \E id \in CompletePairIds(content[f]) : id \notin StoredIds(commands)

\* the records that parsing the whole of the file, from byte 0, yields
ParsedInFull(f) == parseJsonlContent(ReadLines(f).lines, SessionId(f)).commands

\* C31: after a force sync that reports no errors, every record that parsing
\* a candidate file in full from byte 0 yields has a row with its id; the
\* rows stored before are all kept as they were, and a row the sync added is
\* such a record of one of the files; the checkpoint offset of every
\* candidate file is the size of the file.
ForceSyncStoresAll ==
  [][(res'.op = "sync" /\ res'.force /\ res'.errors = <<>>)
       => /\ Len(commands') >= Len(commands)
          /\ SubSeq(commands', 1, Len(commands)) = commands
          /\ \A i \in (Len(commands) + 1)..Len(commands') :
               \E f \in JsonlFiles : \E k \in 1..Len(ParsedInFull(f)) :
                 commands'[i] = Row(i, ParsedInFull(f)[k])
          /\ \A f \in JsonlFiles :
               /\ StoredIds(ParsedInFull(f)) \subseteq StoredIds(commands')
               /\ HasIndexedFile(indexed', f)
               /\ indexed'[f].last_byte_offset = FileSize(f)]_vars
\* a force sync without errors over two files that each hold the pair t1:
\* one row has the id, both checkpoints are at the size of their file
ForceSyncStoresAllWitness ==
  /\ res.op = "sync" /\ res.force /\ res.errors = <<>>
  /\ \A f \in Files :
       /\ f \in JsonlFiles
       /\ "t1" \in StoredIds(ParsedInFull(f))
       /\ HasIndexedFile(indexed, f)
       /\ indexed[f].last_byte_offset = FileSize(f)
  /\ Cardinality(RowsOf("t1")) = 1

(***************************************************************************)
(* search and list over a source that fails: files that cannot be read,    *)
(* a projects directory that is moved away.                                *)
(***************************************************************************)
NextFaulty ==
  \/ \E noSync \in BOOLEAN : Search(noSync, "", DefaultOptions)
  \/ \E noSync \in BOOLEAN : List(noSync, DefaultOptions)
  \/ \E f \in Files, chunk \in PairChunks : AppendLines(f, chunk)
  \/ \E f \in Files, kind \in {"none", "stat", "read"} : SetFault(f, kind)
  \/ SetRoot

SpecFaulty == Init /\ [][NextFaulty]_vars

\* what the query of the call returns on a table
QueryOn(fn, args, rows) ==
  UNION {IF fn = "search" THEN search(args[1], args[2], rows, now)
         ELSE list(args[2], rows, now) : now \in CommandNows}

\* C35: when the auto-sync of search or list reports errors, the command
\* still runs its query and returns: the rows stored before the call are
\* kept, the result is what the query gives on the table as the sync left
\* it, the same as without an error, and every stored row is in a group of
\* the result.
ErrorsDoNotStopQuery ==
  [][(res'.op \in {"search", "list"} /\ res'.errors # <<>>)
       => /\ call'.fn = res'.op
          /\ ~call'.value.threw
          /\ SubSeq(commands', 1, Len(commands)) = commands
          /\ call'.value \in QueryOn(call'.fn, call'.args, commands')
          /\ \A i \in 1..Len(commands') :
               \E k \in 1..Len(call'.value.rows) :
                 call'.value.rows[k].command = commands'[i].command]_vars
\* a search whose sync failed on one file and indexed a command of the other:
\* the command is returned
ErrorsDoNotStopQueryWitness ==
  /\ res.op = "search"
  /\ Len(res.errors) = 1
  /\ res.errors[1].kind = "processing"
  /\ res.newCommands = 1
  /\ call.fn = "search"
  /\ ~call.value.threw
  /\ Len(call.value.rows) = 1
\* a list while the projects directory is missing: the stored commands are
\* returned
MissingRootListWitness ==
  /\ res.op = "list"
  /\ res.errors = <<NotFoundError>>
  /\ call.fn = "list"
  /\ ~call.value.threw
  /\ Len(call.value.rows) = 1

(***************************************************************************)
(* sync step by step, next to a writer.  sync reads the file system three  *)
(* times: readdirSync when it starts, then for each file statSync and, in  *)
(* indexFile, readFileSync; the writer may append between any two of them. *)
(* While sync runs, call holds the files that are left, in args, the       *)
(* SyncResult so far, in value, and in found what statSync gave for the    *)
(* file at hand.                                                           *)
(***************************************************************************)
\* sync is called: existsSync, the readdirSync calls
SyncStart(force) ==
  /\ call = NoCall
  /\ \E order \in Orders(JsonlFiles) :
       IF ~rootExists
       THEN /\ res' = [Result("sync", force) EXCEPT !.errors = <<NotFoundError>>]
            /\ UNCHANGED call
       ELSE /\ call' = [fn    |-> "sync",
                        args  |-> <<order, force>>,
                        value |-> Result("sync", force),
                        left  |-> EmptyMap,
                        found |-> <<>>]
            /\ UNCHANGED res
  /\ UNCHANGED <<fsVars, commands, indexed, writes>>

\* statSync(filePath) for the next file
SyncStat ==
  /\ call.fn = "sync"
  /\ call.found = <<>>
  /\ call' = [call EXCEPT !.found = <<StatFile(Head(call.args[1]))>>]
  /\ UNCHANGED <<fsVars, commands, indexed, res, writes>>

\* the rest of the iteration: the skip test, indexFile with its readFileSync,
\* updateIndexedFile; after the last file sync returns
SyncIndex ==
  /\ call.fn = "sync"
  /\ call.found # <<>>
  /\ LET filePath == Head(call.args[1])
         rest == Tail(call.args[1])
         force == call.args[2]
         out == ProcessFile([rows |-> commands, idx |-> indexed, result |-> call.value],
                            filePath, force, call.found[1], ReadLines(filePath))
     IN  /\ commands' = out.rows
         /\ indexed' = out.idx
         /\ IF rest = <<>>
            THEN /\ res' = out.result
                 /\ call' = NoCall
            ELSE /\ call' = [call EXCEPT !.args = <<rest, force>>,
                                         !.value = out.result,
                                         !.found = <<>>]
                 /\ UNCHANGED res
  /\ UNCHANGED <<fsVars, writes>>

\* non-force syncs and a writer that appends whole well-formed lines
NextRace ==
  \/ SyncStart(FALSE)
  \/ SyncStat
  \/ SyncIndex
  \/ \E f \in Files, chunk \in WellFormedChunks : AppendLines(f, chunk)

SpecRace == Init /\ [][NextRace]_vars

\* sync is about to run the rest of the iteration for a file it has the
\* size of: the file, the size, and the lines indexFile will parse
Indexing == call.fn = "sync" /\ call.found # <<>>
IndexingFile == Head(call.args[1])
SizeSeen == call.found[1].size
LinesRead == ReadLines(IndexingFile).lines
RecordsRead ==
  parseJsonlContent(NewContent(LinesRead,
                               StartLine(LinesRead, StartOffsetOf(IndexingFile, FALSE))),
                    SessionId(IndexingFile)).commands

\* C34: when whole lines are appended to a file between the statSync and
\* the readFileSync of a sync, the checkpoint written is the size statSync
\* gave, which is at most the number of bytes read and parsed; every record
\* of the text read, appended lines included, has its row, and no id has
\* two rows, also when a later sync parses the same lines again; the file
\* is then larger than its checkpoint, so the next sync does not skip it,
\* and it starts exactly at the first appended byte.
AppendBetweenStatAndRead ==
  [][(Indexing /\ call' # call
        /\ ~(HasIndexedFile(indexed, IndexingFile)
               /\ indexed[IndexingFile].last_byte_offset >= SizeSeen))
       => /\ HasIndexedFile(indexed', IndexingFile)
          /\ indexed'[IndexingFile].last_byte_offset = SizeSeen
          /\ SizeSeen <= FileSize(IndexingFile)
          /\ StoredIds(RecordsRead) \subseteq StoredIds(commands')
          /\ SubSeq(commands', 1, Len(commands)) = commands
          /\ \A i, j \in 1..Len(commands') :
               commands'[i].tool_use_id = commands'[j].tool_use_id => i = j
          /\ SizeSeen < FileSize(IndexingFile)
               => /\ ~(indexed'[IndexingFile].last_byte_offset >= FileSize(IndexingFile))
                  /\ LineStart(LinesRead, StartLine(LinesRead, SizeSeen)) = SizeSeen]_vars
\* a sync has returned that read more of a file than statSync had counted:
\* the checkpoint is below the size, a pair of the bytes above it is stored
\* from this file
AppendBetweenStatAndReadWitness ==
  /\ call = NoCall
  /\ res.op = "sync"
  /\ \E f \in Files :
       /\ HasIndexedFile(indexed, f)
       /\ indexed[f].last_byte_offset > 0
       /\ indexed[f].last_byte_offset < FileSize(f)
       /\ \E i \in 1..Len(commands) :
            /\ commands[i].session_id = SessionId(f)
            /\ commands[i].tool_use_id \in
                 CompletePairIds(NewContent(content[f],
                                            StartLine(content[f],
                                                      indexed[f].last_byte_offset)))

====
